---- MODULE Spec2Model ----
(***************************************************************************)
(* KMTracker: the input capture and aggregation engine (src/src/tracker.py) *)
(* and the storage upserts it uses (src/src/database.py).                   *)
(*                                                                          *)
(* Threads: the hook thread (hook_loop and the two low-level callbacks the  *)
(* OS runs on it), the flush worker (flush_loop), and the main thread that  *)
(* calls start(), get_stats_snapshot() and stop().  Every statement that    *)
(* another thread can observe is one step.                                  *)
(*                                                                          *)
(* Units.  scroll_buffer holds 120ths of a notch (abs(delta)), distance     *)
(* holds dist_px * den where px_per_mm = num/den, i.e. metres times         *)
(* 1000*num: both are exact images of the floats the code adds up.          *)
(***************************************************************************)
EXTENDS Integers, Sequences, FiniteSets, TLC

\* ------------------------------------------------------------------ bounds
\* callbacks delivered in Spec, in SpecCallbacks, in SpecStop and in SpecSnapshot
MaxEvents == 2
MaxCallbacks == 3
MaxStopEvents == 2
MaxSnapEvents == 2
\* the stress run of SpecStress: threads, and callbacks per thread
MaxThreads == 2
MaxPerThread == 2
\* get_stats_snapshot calls in SpecSnapshot
MaxSnapshots == 1
\* callbacks delivered in SpecShutdown
MaxLifeEvents == 1
\* click coordinates run over -MaxCoord..MaxCoord
MaxCoord == 12

\* ------------------------------------------------- constants of tracker.py
WM_KEYDOWN == 256
WM_KEYUP == 257
WM_SYSKEYDOWN == 260
WM_SYSKEYUP == 261
WM_MOUSEMOVE == 512
WM_LBUTTONDOWN == 513
WM_RBUTTONDOWN == 516
WM_MBUTTONDOWN == 519
WM_MOUSEWHEEL == 522
LLKHF_INJECTED == 16
BinSize == 5
\* "now - self.last_app_check > 0.5", the clock counting tenths of a second
AppCheckInterval == 5

None == "None"
\* None where the other values are records; a NULL pointer
Nil == [nil |-> TRUE]
NULL == [null |-> TRUE]
\* no value returned yet
NoResult == -1
Unknown == "Unknown"

Threads == 1..MaxThreads
\* the thread the OS runs the hook callbacks on
HookThread == CHOOSE t \in Threads : \A u \in Threads : t <= u
\* the flush thread, the main thread, and the value of a free lock
FlushWorker == MaxThreads + 1
MainThread == MaxThreads + 2
NoThread == MaxThreads - MaxThreads
\* the flush thread and the hook thread that a second start() call starts
SecondWorker == MaxThreads + 3
SecondHookThread == CHOOSE t \in Threads : t # HookThread
Executors == {FlushWorker, MainThread, SecondWorker}

Apps == {"X"}
ChainResults == {0, 1}

\* ------------------------------------------------------------ python dicts
\* A dict is a sequence of [k, v] entries in insertion order.
DictKeys(d) == {d[i].k : i \in DOMAIN d}

DictHas(d, key) == key \in DictKeys(d)

DictIndex(d, key) == CHOOSE i \in DOMAIN d : d[i].k = key

DictGet(d, key, default) == IF DictHas(d, key) THEN d[DictIndex(d, key)].v ELSE default

DictSet(d, key, val) ==
    IF DictHas(d, key)
    THEN [d EXCEPT ![DictIndex(d, key)].v = val]
    ELSE Append(d, [k |-> key, v |-> val])

RECURSIVE DictSum(_)
DictSum(d) == IF d = <<>> THEN 0 ELSE Head(d).v + DictSum(Tail(d))

RECURSIVE FnSum(_, _)
FnSum(f, S) ==
    IF S = {} THEN 0
    ELSE LET x == CHOOSE y \in S : TRUE IN f[x] + FnSum(f, S \ {x})

Abs(n) == IF n < 0 THEN -n ELSE n

\* math.sqrt on the squared lengths the inputs produce (all perfect squares)
Sqrt(n) == CHOOSE r \in 0..n : r * r = n

\* ------------------------------------------------------------------ inputs
KbStruct(sc, fl) == [scanCode |-> sc, flags |-> fl]

KbEvent(n, w, l) == [nCode |-> n, wParam |-> w, lParam |-> l]

KbInputs ==
    { KbEvent(0, WM_KEYDOWN, KbStruct(30, 0)),
      KbEvent(0, WM_KEYDOWN, KbStruct(31, 0)),
      KbEvent(0, WM_SYSKEYDOWN, KbStruct(30, 32)),
      KbEvent(0, WM_KEYUP, KbStruct(30, 128)),
      KbEvent(0, WM_SYSKEYUP, KbStruct(30, 160)),
      KbEvent(0, WM_KEYDOWN, KbStruct(31, LLKHF_INJECTED)),
      KbEvent(0, WM_KEYDOWN, NULL),
      KbEvent(-1, WM_KEYDOWN, KbStruct(30, 0)) }

\* mouseData, a DWORD, as its two 16-bit words
Dword(hi, lo) == [hi |-> hi, lo |-> lo]

MsStruct(x, y, data) == [x |-> x, y |-> y, mouseData |-> data]

MsEvent(n, w, l) == [nCode |-> n, wParam |-> w, lParam |-> l]

MsInputs ==
    { MsEvent(0, WM_MOUSEMOVE, MsStruct(0, 0, Dword(0, 0))),
      MsEvent(0, WM_MOUSEMOVE, MsStruct(3, 4, Dword(0, 0))),
      MsEvent(0, WM_LBUTTONDOWN, MsStruct(12, 7, Dword(0, 0))),
      MsEvent(0, WM_RBUTTONDOWN, MsStruct(10, 5, Dword(0, 0))),
      MsEvent(0, WM_MBUTTONDOWN, MsStruct(-3, 7, Dword(0, 0))),
      MsEvent(0, 514, MsStruct(12, 7, Dword(0, 0))),
      MsEvent(0, WM_MOUSEWHEEL, MsStruct(0, 0, Dword(120, 0))),
      MsEvent(0, WM_MOUSEWHEEL, MsStruct(0, 0, Dword(65536 - 120, 0))),
      MsEvent(0, WM_MOUSEWHEEL, MsStruct(0, 0, Dword(0, 7))),
      MsEvent(0, WM_MOUSEMOVE, NULL),
      MsEvent(-1, WM_LBUTTONDOWN, MsStruct(12, 7, Dword(0, 0))) }

\* the high word taken as it stands, unsigned
WheelDeltaUnsigned(mouseData) == mouseData.hi % 65536

\* ctypes.c_short((mouseData >> 16) & 0xFFFF).value
WheelDelta(mouseData) ==
    LET hi == mouseData.hi % 65536
    IN  IF hi >= 32768 THEN hi - 65536 ELSE hi

\* kb_struct.flags & 0x10
Injected(flags) == (flags \div LLKHF_INJECTED) % 2 = 1

\* (x // 5) * 5
BinTowardsZero(x) ==
    IF x < 0 THEN -(((-x) \div BinSize) * BinSize) ELSE (x \div BinSize) * BinSize

Bin(x) == (x \div BinSize) * BinSize

\* _init_screen_metrics: px_per_mm as <<num, den>>
screen_width_px == 1920
screen_width_mm == 960
\* what GetDC/GetDeviceCaps answer: the four metrics, or an exception
MetricMillimetres == {0, 194, 254, 344}
MetricPixels == {0, 960, 1920}
MetricInputs ==
    {[available |-> FALSE, HORZSIZE |-> 0, VERTSIZE |-> 0, HORZRES |-> 0, VERTRES |-> 0]}
    \cup [available : {TRUE}, HORZSIZE : MetricMillimetres, VERTSIZE : MetricMillimetres,
          HORZRES : MetricPixels, VERTRES : MetricPixels]

\* _init_screen_metrics: the five fields it sets, px_per_mm as <<num, den>>
init_screen_metrics(m) ==
    IF m.available
    THEN [screen_width_mm |-> m.HORZSIZE, screen_height_mm |-> m.VERTSIZE,
          screen_width_px |-> m.HORZRES, screen_height_px |-> m.VERTRES,
          px_per_mm |-> IF m.HORZSIZE > 0 /\ m.HORZRES > 0
                        THEN <<m.HORZRES, m.HORZSIZE>>
                        ELSE <<960, 254>>]
    ELSE [screen_width_mm |-> 344, screen_height_mm |-> 194,
          screen_width_px |-> 1920, screen_height_px |-> 1080,
          px_per_mm |-> <<1920, 344>>]

\* the metrics of the screen the tracker of the other specifications runs on
px_per_mm ==
    init_screen_metrics([available |-> TRUE, HORZSIZE |-> screen_width_mm, VERTSIZE |-> 540,
                         HORZRES |-> screen_width_px, VERTRES |-> 1080]).px_per_mm

\* dist_px / px_per_mm / 1000.0, in units of 1/(1000*num) metres
DistMetersPerPixel(dist_px) == dist_px * px_per_mm[1]

DistMeters(dist_px) == dist_px * px_per_mm[2]

VARIABLES
    running, hook_thread_id, keyboard_hook, mouse_hook, installed,
    key_buffer, click_buffer, distance_buffer, scroll_buffer,
    app_stats_buffer, heatmap_buffer, mouse_heatmap_buffer,
    lock, last_mouse_pos, cached_app_name, last_app_check, clock,
    db, date, call, second,
    on_key_press_callback, hk, hpc, quitPosted, wpc, mpc, fl, snap,
    sent, qualKeys, recorded, failed, prevDb, quiet, prevFailed, nSnaps, caught

engine == <<running, hook_thread_id, keyboard_hook, mouse_hook, installed,
            on_key_press_callback>>
buffers == <<key_buffer, click_buffer, distance_buffer, scroll_buffer,
             app_stats_buffer, heatmap_buffer, mouse_heatmap_buffer>>
mouse == <<last_mouse_pos, cached_app_name, last_app_check, clock>>
threads == <<hk, hpc, quitPosted, wpc, mpc, fl, snap>>
ghost == <<sent, qualKeys, recorded, failed, prevDb, quiet, prevFailed, nSnaps, caught>>
vars == <<engine, buffers, lock, mouse, db, date, call, second, threads, ghost>>

\* ------------------------------------------------------------- the storage
\* A table is a function from the primary keys of its rows to the other columns.
EmptyDb == [daily_stats |-> <<>>, app_stats |-> <<>>,
            heatmap_data |-> <<>>, mouse_heatmap_data |-> <<>>]

DailyRow(k, c, d, s) ==
    [key_count |-> k, mouse_click_count |-> c, mouse_distance |-> d, scroll_distance |-> s]

AppRow(k, c, s, d) == [keys |-> k, clicks |-> c, scrolls |-> s, distance |-> d]

AddDaily(a, b) ==
    DailyRow(a.key_count + b.key_count, a.mouse_click_count + b.mouse_click_count,
             a.mouse_distance + b.mouse_distance, a.scroll_distance + b.scroll_distance)

AddApp(a, b) ==
    AppRow(a.keys + b.keys, a.clicks + b.clicks, a.scrolls + b.scrolls,
           a.distance + b.distance)

\* INSERT ... ON CONFLICT(key) DO UPDATE SET col = col + excluded.col
update_stats(d, day, k, c, dist, s) ==
    LET new == DailyRow(k, c, dist, s)
    IN  [d EXCEPT !.daily_stats =
            IF day \in DOMAIN @ THEN [@ EXCEPT ![day] = AddDaily(@, new)]
            ELSE @ @@ (day :> new)]

update_app_stats(d, day, app, st) ==
    [d EXCEPT !.app_stats =
        IF <<day, app>> \in DOMAIN @ THEN [@ EXCEPT ![<<day, app>>] = AddApp(@, st)]
        ELSE @ @@ (<<day, app>> :> st)]

\* an upsert that replaces the stored count
UpdateHeatmapOverwrites(d, day, key_code, count) ==
    [d EXCEPT !.heatmap_data =
        IF <<day, key_code>> \in DOMAIN @ THEN [@ EXCEPT ![<<day, key_code>>] = count]
        ELSE @ @@ (<<day, key_code>> :> count)]

update_heatmap(d, day, key_code, count) ==
    [d EXCEPT !.heatmap_data =
        IF <<day, key_code>> \in DOMAIN @ THEN [@ EXCEPT ![<<day, key_code>>] = @ + count]
        ELSE @ @@ (<<day, key_code>> :> count)]

update_mouse_heatmap(d, day, x, y, count) ==
    [d EXCEPT !.mouse_heatmap_data =
        IF <<day, x, y>> \in DOMAIN @ THEN [@ EXCEPT ![<<day, x, y>>] = @ + count]
        ELSE @ @@ (<<day, x, y>> :> count)]

\* SELECT * FROM daily_stats WHERE date = today (fetchone)
get_today_stats(d, day) ==
    IF day \in DOMAIN d.daily_stats THEN d.daily_stats[day] ELSE Nil

\* SELECT key_code, count FROM heatmap_data WHERE date = today, as a dict
get_today_heatmap(d, day) ==
    LET codes == {k[2] : k \in {r \in DOMAIN d.heatmap_data : r[1] = day}}
    IN  [c \in codes |-> d.heatmap_data[<<day, c>>]]

\* ------------------------------------------------------------------ dates
\* A datetime.date is held as its day number, day 1 being 2024-03-01; sqlite3
\* stores it as the text "YYYY-MM-DD", held here as its three fields <<y, m, d>>.
DaysInMonth(y, m) ==
    IF m = 2 THEN (IF y % 4 = 0 THEN 29 ELSE 28)
    ELSE IF m \in {4, 6, 9, 11} THEN 30 ELSE 31

\* the date that is day n of month m of year y, n running over the month's ends
RECURSIVE FromOrdinal(_, _, _)
FromOrdinal(y, m, n) ==
    IF n < 1
    THEN (IF m = 1 THEN FromOrdinal(y - 1, 12, n + 31)
          ELSE FromOrdinal(y, m - 1, n + DaysInMonth(y, m - 1)))
    ELSE IF n > DaysInMonth(y, m)
    THEN (IF m = 12 THEN FromOrdinal(y + 1, 1, n - 31)
          ELSE FromOrdinal(y, m + 1, n - DaysInMonth(y, m)))
    ELSE <<y, m, n>>

\* date.isoformat(), the adapter sqlite3 applies to a date parameter
isoformat(n) == FromOrdinal(2024, 3, n)

\* text comparison of two "YYYY-MM-DD" values
TextLeq(a, b) ==
    \/ a[1] < b[1]
    \/ a[1] = b[1] /\ a[2] < b[2]
    \/ a[1] = b[1] /\ a[2] = b[2] /\ a[3] <= b[3]

\* x BETWEEN lo AND hi, exclusive of both ends
BetweenExclusive(x, lo, hi) == TextLeq(lo, x) /\ TextLeq(x, hi) /\ x # lo /\ x # hi

\* x BETWEEN lo AND hi
Between(x, lo, hi) == TextLeq(lo, x) /\ TextLeq(x, hi)

\* SELECT key_code, SUM(count) FROM heatmap_data WHERE date BETWEEN ? AND ?
\* GROUP BY key_code, as a dict
get_heatmap_range(d, start_date, end_date) ==
    LET rows == {r \in DOMAIN d.heatmap_data :
                    Between(r[1], isoformat(start_date), isoformat(end_date))}
        codes == {r[2] : r \in rows}
    IN  [c \in codes |-> FnSum(d.heatmap_data, {r \in rows : r[2] = c})]

\* --------------------------------------------------------------- the state
\* no call of the storage or of the exporter has been made
NoCall == [op |-> None]

\* The threads of a second start() call: where its hook_loop and its flush_loop
\* are; and the key presses made on the keyboard, with the hooks the OS has still
\* to call for the last one.
NoSecond == [hpc |-> "unstarted", wpc |-> "unstarted", presses |-> 0, pending |-> {}]

IdleHook ==
    [pc |-> "idle", proc |-> None, ev |-> Nil, result |-> NoResult, fwd |-> 0,
     raised |-> FALSE, ret |-> NoResult, tmp |-> 0, res |-> Nil, now |-> 0]

IdleFlush ==
    [pc |-> "idle", i |-> 0, today |-> 0, buf0 |-> Nil, db0 |-> Nil,
     writes |-> <<>>, raised |-> FALSE]

NoSnap == Nil

\* what has been recorded so far, and what had been when the date last changed
ZeroRecorded ==
    [keys |-> 0, clicks |-> 0, distance |-> 0, scroll |-> 0, eveKeys |-> 0, eveClicks |-> 0]

InitState ==
    /\ running = FALSE
    /\ hook_thread_id = 0
    /\ keyboard_hook = None
    /\ mouse_hook = None
    /\ installed = {}
    /\ key_buffer = 0
    /\ click_buffer = 0
    /\ distance_buffer = 0
    /\ scroll_buffer = 0
    /\ app_stats_buffer = <<>>
    /\ heatmap_buffer = <<>>
    /\ mouse_heatmap_buffer = <<>>
    /\ lock = NoThread
    /\ last_mouse_pos = <<>>
    /\ cached_app_name = Unknown
    /\ last_app_check = 0
    /\ clock = 2 * AppCheckInterval
    /\ db = EmptyDb
    /\ date = 1
    /\ call = NoCall
    /\ second = NoSecond
    /\ hk = [t \in Threads |-> IdleHook]
    /\ hpc = "unstarted"
    /\ quitPosted = FALSE
    /\ wpc = "unstarted"
    /\ mpc = "constructed"
    /\ fl = [f \in Executors |-> IdleFlush]
    /\ snap = NoSnap
    /\ sent = [t \in Threads |-> 0]
    /\ qualKeys = 0
    /\ recorded = ZeroRecorded
    /\ failed = FALSE
    /\ prevDb = Nil
    /\ quiet = FALSE
    /\ prevFailed = FALSE
    /\ nSnaps = 0
    /\ caught = 0

\* the buffers as one value
Buffers ==
    [key_buffer |-> key_buffer, click_buffer |-> click_buffer,
     distance_buffer |-> distance_buffer, scroll_buffer |-> scroll_buffer,
     app_stats_buffer |-> app_stats_buffer, heatmap_buffer |-> heatmap_buffer,
     mouse_heatmap_buffer |-> mouse_heatmap_buffer]

\* ---------------------------------------------------------------- the lock
\* "with self.lock:" on entry: blocks until the lock is free
LockAcquireNoWait(who) == lock' = who

LockAcquire(who) == lock = NoThread /\ lock' = who

\* "with self.lock:" on exit, by return or by exception
LockRelease == lock' = NoThread

\* ------------------------------------------------------ the hook callbacks
Hk(t) == hk[t]

SetHk(t, h) == hk' = [hk EXCEPT ![t] = h]

\* a key-down or system-key-down with the injected flag clear
CountsAsKey(ev) ==
    /\ ev.nCode >= 0
    /\ ev.wParam \in {WM_KEYDOWN, WM_SYSKEYDOWN}
    /\ ev.lParam # NULL
    /\ ~Injected(ev.lParam.flags)

\* The callback is entered with (nCode, wParam, lParam).
Enter(t, proc, ev) ==
    /\ Hk(t).pc = "idle"
    /\ SetHk(t, [IdleHook EXCEPT !.pc = "called", !.proc = proc, !.ev = ev])
    /\ sent' = [sent EXCEPT ![t] = @ + 1]
    /\ qualKeys' = qualKeys + (IF proc = "kb" /\ CountsAsKey(ev) THEN 1 ELSE 0)
    /\ quiet' = FALSE
    /\ UNCHANGED <<engine, buffers, lock, mouse, db, date, call, hpc, quitPosted, wpc, mpc,
                   fl, snap, recorded, failed, prevDb, prevFailed, nSnaps, caught>>

Invoke(t, proc, ev) == Enter(t, proc, ev) /\ UNCHANGED second

\* result = user32.CallNextHookEx(hook, nCode, wParam, lParam), the first statement
CallNextHookExOnlyWhenNegative(t) ==
    /\ Hk(t).pc = "called"
    /\ \E r \in ChainResults :
         SetHk(t, IF Hk(t).ev.nCode < 0
                  THEN [Hk(t) EXCEPT !.pc = "classify", !.result = r, !.fwd = @ + 1]
                  ELSE [Hk(t) EXCEPT !.pc = "classify"])
    /\ UNCHANGED <<engine, buffers, lock, mouse, db, date, call, second, hpc, quitPosted, wpc, mpc,
                   fl, snap, ghost>>

CallNextHookEx(t) ==
    /\ Hk(t).pc = "called"
    /\ \E r \in ChainResults :
         SetHk(t, [Hk(t) EXCEPT !.pc = "classify", !.result = r, !.fwd = @ + 1])
    /\ UNCHANGED <<engine, buffers, lock, mouse, db, date, call, second, hpc, quitPosted, wpc, mpc,
                   fl, snap, ghost>>

\* "except Exception: pass", then "return result"
Propagated(h) == [h EXCEPT !.pc = "escaped", !.raised = TRUE]

Caught(h) == [h EXCEPT !.pc = "ret", !.raised = TRUE]

\* low_level_keyboard_proc, the body of its try
KbClassifyCountsInjected(t) ==
    LET h == Hk(t) ev == h.ev IN
    /\ h.pc = "classify"
    /\ h.proc = "kb"
    /\ SetHk(t,
         IF ev.nCode >= 0 /\ (ev.wParam = WM_KEYDOWN \/ ev.wParam = WM_SYSKEYDOWN)
         THEN IF ev.lParam = NULL
              THEN Caught(h)
              ELSE [h EXCEPT !.pc = "press_lock"]
         ELSE [h EXCEPT !.pc = "ret"])
    /\ caught' = caught + (IF hk'[t].raised THEN 1 ELSE 0)
    /\ UNCHANGED <<engine, buffers, lock, mouse, db, date, call, second, hpc, quitPosted, wpc, mpc,
                   fl, snap, sent, qualKeys, recorded, failed, prevDb, quiet, prevFailed,
                   nSnaps>>

KbClassify(t) ==
    LET h == Hk(t) ev == h.ev IN
    /\ h.pc = "classify"
    /\ h.proc = "kb"
    /\ SetHk(t,
         IF ev.nCode >= 0 /\ (ev.wParam = WM_KEYDOWN \/ ev.wParam = WM_SYSKEYDOWN)
         THEN IF ev.lParam = NULL
              THEN Caught(h)
              ELSE IF ~Injected(ev.lParam.flags)
                   THEN [h EXCEPT !.pc = "press_lock"]
                   ELSE [h EXCEPT !.pc = "ret"]
         ELSE [h EXCEPT !.pc = "ret"])
    /\ caught' = caught + (IF hk'[t].raised THEN 1 ELSE 0)
    /\ UNCHANGED <<engine, buffers, lock, mouse, db, date, call, second, hpc, quitPosted, wpc, mpc,
                   fl, snap, sent, qualKeys, recorded, failed, prevDb, quiet, prevFailed,
                   nSnaps>>

\* low_level_mouse_proc, the body of its try
MsClassify(t) ==
    LET h == Hk(t) ev == h.ev IN
    /\ h.pc = "classify"
    /\ h.proc = "ms"
    /\ SetHk(t,
         IF ev.nCode >= 0
         THEN IF ev.lParam = NULL
              THEN Caught(h)
              ELSE IF ev.wParam = WM_MOUSEMOVE
                   THEN [h EXCEPT !.pc = "on_move"]
                   ELSE IF ev.wParam \in {WM_LBUTTONDOWN, WM_RBUTTONDOWN, WM_MBUTTONDOWN}
                        THEN [h EXCEPT !.pc = "click_lock"]
                        ELSE IF ev.wParam = WM_MOUSEWHEEL
                             THEN [h EXCEPT !.pc = "scroll_lock",
                                            !.tmp = WheelDelta(ev.lParam.mouseData)]
                             ELSE [h EXCEPT !.pc = "ret"]
         ELSE [h EXCEPT !.pc = "ret"])
    /\ caught' = caught + (IF hk'[t].raised THEN 1 ELSE 0)
    /\ UNCHANGED <<engine, buffers, lock, mouse, db, date, call, second, hpc, quitPosted, wpc, mpc,
                   fl, snap, sent, qualKeys, recorded, failed, prevDb, quiet, prevFailed,
                   nSnaps>>

\* "return result"
HookReturn(t) ==
    /\ Hk(t).pc = "ret"
    /\ SetHk(t, [Hk(t) EXCEPT !.pc = "returned", !.ret = Hk(t).result])
    /\ UNCHANGED <<engine, buffers, lock, mouse, db, date, call, second, hpc, quitPosted, wpc, mpc,
                   fl, snap, ghost>>

\* the caller takes the return value; the thread is ready for the next callback
HookDone(t) ==
    /\ Hk(t).pc = "returned"
    /\ SetHk(t, IdleHook)
    /\ UNCHANGED <<engine, buffers, lock, mouse, db, date, call, second, hpc, quitPosted, wpc, mpc,
                   fl, snap, ghost>>

\* get_active_app_name(): the foreground process's name, "Unknown" on any failure
\* What the OS answers to one get_active_app_info call: the foreground process
\* is there or gone (psutil.Process raises), process.name() and process.exe()
\* answer or raise (access denied, no path).
Resolutions ==
    {[process |-> "gone", name |-> "ok", exe |-> "ok", app |-> a] : a \in Apps}
    \cup {[process |-> "ok", name |-> n, exe |-> e, app |-> a] :
              n \in {"ok", "raises"}, e \in {"ok", "raises"}, a \in Apps}

\* get_active_app_info: (name, exe, pid), never raising
get_active_app_info(r) ==
    IF r.process = "gone"
    THEN [name |-> Unknown, exe |-> None, pid |-> None]
    ELSE [name |-> IF r.name = "ok" THEN r.app ELSE Unknown,
          exe |-> IF r.exe = "ok" THEN "path" ELSE None,
          pid |-> "pid"]

\* a resolution that never answers with the sentinel
GetActiveAppNameNoSentinel(r) == r.app

\* get_active_app_name: the name of get_active_app_info, "Unknown" on any exception
get_active_app_name(r) == get_active_app_info(r).name

AppNames == {get_active_app_name(r) : r \in Resolutions}

AppEntry(buf, app) == DictGet(buf, app, AppRow(0, 0, 0, 0))

\* ---------------------------------------------------------------- on_press
OnPressLock(t) ==
    /\ Hk(t).pc = "press_lock"
    /\ LockAcquire(t)
    /\ SetHk(t, [Hk(t) EXCEPT !.pc = "press_load"])
    /\ UNCHANGED <<engine, buffers, mouse, db, date, call, second, hpc, quitPosted, wpc, mpc,
                   fl, snap, ghost>>

\* self.key_buffer += 1: the read
OnPressLoad(t) ==
    /\ Hk(t).pc = "press_load"
    /\ SetHk(t, [Hk(t) EXCEPT !.pc = "press_store", !.tmp = key_buffer])
    /\ UNCHANGED <<engine, buffers, lock, mouse, db, date, call, second, hpc, quitPosted, wpc, mpc,
                   fl, snap, ghost>>

\* self.key_buffer += 1: the write
OnPressStore(t) ==
    /\ Hk(t).pc = "press_store"
    /\ key_buffer' = Hk(t).tmp + 1
    /\ recorded' = [recorded EXCEPT !.keys = @ + 1]
    /\ SetHk(t, [Hk(t) EXCEPT !.pc = "press_app"])
    /\ UNCHANGED <<engine, click_buffer, distance_buffer, scroll_buffer, app_stats_buffer,
                   heatmap_buffer, mouse_heatmap_buffer, lock, mouse, db, date, call, second,
                   hpc, quitPosted, wpc, mpc, fl, snap,
                   sent, qualKeys, failed, prevDb, quiet, prevFailed, nSnaps, caught>>

\* app_name = self.get_active_app_name(), then the per-app and the heatmap counters
OnPressApp(t) ==
    /\ Hk(t).pc = "press_app"
    /\ \E r \in Resolutions :
         LET app == get_active_app_name(r) IN
         /\ app_stats_buffer' =
                DictSet(app_stats_buffer, app,
                        [AppEntry(app_stats_buffer, app) EXCEPT !.keys = @ + 1])
         /\ SetHk(t, [Hk(t) EXCEPT !.pc = "press_unlock", !.res = r])
    /\ LET sc == Hk(t).ev.lParam.scanCode
       IN  heatmap_buffer' = DictSet(heatmap_buffer, sc, DictGet(heatmap_buffer, sc, 0) + 1)
    /\ UNCHANGED <<engine, key_buffer, click_buffer, distance_buffer, scroll_buffer,
                   mouse_heatmap_buffer, lock, mouse, db, date, call, second,
                   hpc, quitPosted, wpc, mpc, fl, snap, ghost>>

\* the callback called inside the with block
OnPressUnlockHoldsLock(t) ==
    /\ Hk(t).pc = "press_unlock"
    /\ SetHk(t, [Hk(t) EXCEPT !.res = Nil, !.pc =
                    IF on_key_press_callback # None THEN "press_cb" ELSE "ret"])
    /\ UNCHANGED <<engine, buffers, lock, mouse, db, date, call, second, hpc, quitPosted, wpc,
                   mpc, fl, snap, ghost>>

\* the end of "with self.lock:", then "if self.on_key_press_callback:"
OnPressUnlock(t) ==
    /\ Hk(t).pc = "press_unlock"
    /\ LockRelease
    /\ SetHk(t, [Hk(t) EXCEPT !.res = Nil, !.pc =
                    IF on_key_press_callback # None THEN "press_cb" ELSE "ret"])
    /\ UNCHANGED <<engine, buffers, mouse, db, date, call, second, hpc, quitPosted, wpc, mpc,
                   fl, snap, ghost>>

\* self.on_key_press_callback() inside its own try/except: it returns or it raises
OnPressCallback(t) ==
    /\ Hk(t).pc = "press_cb"
    /\ \E raises \in BOOLEAN :
         /\ SetHk(t, [Hk(t) EXCEPT !.pc = "ret", !.raised = raises])
         /\ caught' = caught + (IF raises THEN 1 ELSE 0)
    /\ UNCHANGED <<engine, buffers, lock, mouse, db, date, call, second, hpc, quitPosted, wpc, mpc,
                   fl, snap, sent, qualKeys, recorded, failed, prevDb, quiet, prevFailed,
                   nSnaps>>

\* ----------------------------------------------------------------- on_move
\* "if self.last_mouse_pos:" and the distance of the displacement
OnMoveBegin(t) ==
    LET h == Hk(t) x == h.ev.lParam.x y == h.ev.lParam.y IN
    /\ h.pc = "on_move"
    /\ IF last_mouse_pos = <<>>
       THEN /\ last_mouse_pos' = <<x, y>>
            /\ SetHk(t, [h EXCEPT !.pc = "ret"])
       ELSE LET dx == x - last_mouse_pos[1]
                dy == y - last_mouse_pos[2]
                dist_px == Sqrt(dx * dx + dy * dy)
            IN  /\ SetHk(t, [h EXCEPT !.pc = "move_lock", !.tmp = DistMeters(dist_px)])
                /\ UNCHANGED last_mouse_pos
    /\ UNCHANGED <<engine, buffers, lock, cached_app_name, last_app_check, clock, db, date, call, second,
                   hpc, quitPosted, wpc, mpc, fl, snap, ghost>>

OnMoveLock(t) ==
    /\ Hk(t).pc = "move_lock"
    /\ LockAcquire(t)
    /\ SetHk(t, [Hk(t) EXCEPT !.pc = "move_add"])
    /\ UNCHANGED <<engine, buffers, mouse, db, date, call, second, hpc, quitPosted, wpc, mpc,
                   fl, snap, ghost>>

\* a check of the active app on every move
StaleAlways(now) == TRUE

\* "if now - self.last_app_check > 0.5:"
Stale(now) == now - last_app_check > AppCheckInterval

\* self.distance_buffer += dist_meters, now = time.time(), then the throttled
\* check of the active app
OnMoveAdd(t) ==
    LET h == Hk(t) now == clock IN
    /\ h.pc = "move_add"
    /\ distance_buffer' = distance_buffer + h.tmp
    /\ recorded' = [recorded EXCEPT !.distance = @ + h.tmp]
    /\ IF Stale(now)
       THEN /\ SetHk(t, [h EXCEPT !.pc = "move_app", !.now = now])
            /\ UNCHANGED app_stats_buffer
       ELSE /\ SetHk(t, [h EXCEPT !.pc = "move_unlock"])
            /\ app_stats_buffer' =
                 DictSet(app_stats_buffer, cached_app_name,
                         [AppEntry(app_stats_buffer, cached_app_name)
                             EXCEPT !.distance = @ + h.tmp])
    /\ UNCHANGED <<engine, key_buffer, click_buffer, scroll_buffer, heatmap_buffer,
                   mouse_heatmap_buffer, lock, mouse, db, date, call, second,
                   hpc, quitPosted, wpc, mpc, fl, snap,
                   sent, qualKeys, failed, prevDb, quiet, prevFailed, nSnaps, caught>>

\* self.cached_app_name = self.get_active_app_name(), self.last_app_check = now,
\* then the per-app distance
OnMoveApp(t) ==
    LET h == Hk(t) IN
    /\ h.pc = "move_app"
    /\ \E r \in Resolutions :
         LET app == get_active_app_name(r) IN
         /\ cached_app_name' = app
         /\ app_stats_buffer' =
              DictSet(app_stats_buffer, app,
                      [AppEntry(app_stats_buffer, app) EXCEPT !.distance = @ + h.tmp])
         /\ SetHk(t, [h EXCEPT !.pc = "move_unlock", !.res = r])
    /\ last_app_check' = h.now
    /\ UNCHANGED <<engine, key_buffer, click_buffer, distance_buffer, scroll_buffer,
                   heatmap_buffer, mouse_heatmap_buffer, lock, last_mouse_pos, clock,
                   db, date, call, second, hpc, quitPosted, wpc, mpc, fl, snap, ghost>>

\* the end of "with self.lock:", then self.last_mouse_pos = (x, y)
OnMoveUnlock(t) ==
    LET h == Hk(t) IN
    /\ h.pc = "move_unlock"
    /\ LockRelease
    /\ last_mouse_pos' = <<h.ev.lParam.x, h.ev.lParam.y>>
    /\ SetHk(t, [h EXCEPT !.res = Nil, !.now = 0, !.pc = "ret"])
    /\ UNCHANGED <<engine, buffers, cached_app_name, last_app_check, clock, db, date, call, second,
                   hpc, quitPosted, wpc, mpc, fl, snap, ghost>>

\* ---------------------------------------------------------------- on_click
OnClickLock(t) ==
    /\ Hk(t).pc = "click_lock"
    /\ LockAcquire(t)
    /\ SetHk(t, [Hk(t) EXCEPT !.pc = "click_add"])
    /\ UNCHANGED <<engine, buffers, mouse, db, date, call, second, hpc, quitPosted, wpc, mpc,
                   fl, snap, ghost>>

\* self.click_buffer += 1
OnClickAdd(t) ==
    /\ Hk(t).pc = "click_add"
    /\ click_buffer' = click_buffer + 1
    /\ recorded' = [recorded EXCEPT !.clicks = @ + 1]
    /\ SetHk(t, [Hk(t) EXCEPT !.pc = "click_app"])
    /\ UNCHANGED <<engine, key_buffer, distance_buffer, scroll_buffer, app_stats_buffer,
                   heatmap_buffer, mouse_heatmap_buffer, lock, mouse, db, date, call, second,
                   hpc, quitPosted, wpc, mpc, fl, snap,
                   sent, qualKeys, failed, prevDb, quiet, prevFailed, nSnaps, caught>>

\* app = self.get_active_app_name(), the per-app clicks and the 5x5 pixel bin
OnClickApp(t) ==
    LET h == Hk(t)
        bx == Bin(h.ev.lParam.x)
        by == Bin(h.ev.lParam.y)
    IN
    /\ h.pc = "click_app"
    /\ \E r \in Resolutions :
         LET app == get_active_app_name(r) IN
         /\ app_stats_buffer' =
                DictSet(app_stats_buffer, app,
                        [AppEntry(app_stats_buffer, app) EXCEPT !.clicks = @ + 1])
         /\ SetHk(t, [h EXCEPT !.pc = "click_unlock", !.res = r])
    /\ mouse_heatmap_buffer' =
         DictSet(mouse_heatmap_buffer, <<bx, by>>,
                 DictGet(mouse_heatmap_buffer, <<bx, by>>, 0) + 1)
    /\ UNCHANGED <<engine, key_buffer, click_buffer, distance_buffer, scroll_buffer,
                   heatmap_buffer, lock, mouse, db, date, call, second,
                   hpc, quitPosted, wpc, mpc, fl, snap, ghost>>

OnClickUnlock(t) ==
    /\ Hk(t).pc = "click_unlock"
    /\ LockRelease
    /\ SetHk(t, [Hk(t) EXCEPT !.res = Nil, !.pc = "ret"])
    /\ UNCHANGED <<engine, buffers, mouse, db, date, call, second, hpc, quitPosted, wpc, mpc,
                   fl, snap, ghost>>

\* --------------------------------------------------------------- on_scroll
OnScrollLock(t) ==
    /\ Hk(t).pc = "scroll_lock"
    /\ LockAcquire(t)
    /\ SetHk(t, [Hk(t) EXCEPT !.pc = "scroll_add"])
    /\ UNCHANGED <<engine, buffers, mouse, db, date, call, second, hpc, quitPosted, wpc, mpc,
                   fl, snap, ghost>>

\* self.scroll_buffer += abs(delta) / 120.0
OnScrollAdd(t) ==
    /\ Hk(t).pc = "scroll_add"
    /\ scroll_buffer' = scroll_buffer + Abs(Hk(t).tmp)
    /\ recorded' = [recorded EXCEPT !.scroll = @ + Abs(Hk(t).tmp)]
    /\ SetHk(t, [Hk(t) EXCEPT !.pc = "scroll_app"])
    /\ UNCHANGED <<engine, key_buffer, click_buffer, distance_buffer, app_stats_buffer,
                   heatmap_buffer, mouse_heatmap_buffer, lock, mouse, db, date, call, second,
                   hpc, quitPosted, wpc, mpc, fl, snap,
                   sent, qualKeys, failed, prevDb, quiet, prevFailed, nSnaps, caught>>

\* app = self.get_active_app_name(); self.app_stats_buffer[app]['scrolls'] += 1
OnScrollApp(t) ==
    /\ Hk(t).pc = "scroll_app"
    /\ \E r \in Resolutions :
         LET app == get_active_app_name(r) IN
         /\ app_stats_buffer' =
                DictSet(app_stats_buffer, app,
                        [AppEntry(app_stats_buffer, app) EXCEPT !.scrolls = @ + 1])
         /\ SetHk(t, [Hk(t) EXCEPT !.pc = "scroll_unlock", !.res = r])
    /\ UNCHANGED <<engine, key_buffer, click_buffer, distance_buffer, scroll_buffer,
                   heatmap_buffer, mouse_heatmap_buffer, lock, mouse, db, date, call, second,
                   hpc, quitPosted, wpc, mpc, fl, snap, ghost>>

OnScrollUnlock(t) ==
    /\ Hk(t).pc = "scroll_unlock"
    /\ LockRelease
    /\ SetHk(t, [Hk(t) EXCEPT !.res = Nil, !.pc = "ret"])
    /\ UNCHANGED <<engine, buffers, mouse, db, date, call, second, hpc, quitPosted, wpc, mpc,
                   fl, snap, ghost>>

\* ------------------------------------------------------------- flush_stats
Fl(f) == fl[f]

SetFl(f, r) == fl' = [fl EXCEPT ![f] = r]

InCycle(f) == Fl(f).pc \in {"check", "skip", "w_daily", "w_app", "w_heat", "w_mouse", "reset"}

NoCallbackActive == \A t \in Threads : Hk(t).pc \in {"idle", "returned"}

\* "with self.lock:" of flush_stats
FlushLock(f) ==
    /\ Fl(f).pc = "lock"
    /\ LockAcquire(f)
    /\ SetFl(f, [Fl(f) EXCEPT !.pc = "check", !.buf0 = Buffers, !.db0 = db])
    /\ UNCHANGED <<engine, buffers, mouse, db, date, call, second, on_key_press_callback, hk, hpc,
                   quitPosted, wpc, mpc, snap, ghost>>

\* the test that makes flush_stats return at once
NothingToFlushNever == FALSE

NothingToFlush ==
    key_buffer = 0 /\ click_buffer = 0 /\ distance_buffer = 0 /\ scroll_buffer = 0

\* a cycle that resets right after its first write
AfterWriteResetsAtOnce(stage, i) == <<"reset", 0>>

\* where the cycle goes after the write at position i of a stage
AfterWrite(stage, i) ==
    IF stage = "w_daily" /\ Len(app_stats_buffer) > 0 THEN <<"w_app", 1>>
    ELSE IF stage = "w_app" /\ i < Len(app_stats_buffer) THEN <<"w_app", i + 1>>
    ELSE IF stage \in {"w_daily", "w_app"} /\ Len(heatmap_buffer) > 0 THEN <<"w_heat", 1>>
    ELSE IF stage = "w_heat" /\ i < Len(heatmap_buffer) THEN <<"w_heat", i + 1>>
    ELSE IF stage \in {"w_daily", "w_app", "w_heat"} /\ Len(mouse_heatmap_buffer) > 0
         THEN <<"w_mouse", 1>>
    ELSE IF stage = "w_mouse" /\ i < Len(mouse_heatmap_buffer) THEN <<"w_mouse", i + 1>>
    ELSE <<"reset", 0>>

\* the early return, or today = datetime.date.today()
FlushCheck(f) ==
    /\ Fl(f).pc = "check"
    /\ SetFl(f, IF NothingToFlush
                THEN [Fl(f) EXCEPT !.pc = "skip"]
                ELSE [Fl(f) EXCEPT !.pc = "w_daily", !.today = date])
    /\ UNCHANGED <<engine, buffers, lock, mouse, db, date, call, second, on_key_press_callback, hk, hpc,
                   quitPosted, wpc, mpc, snap, ghost>>

\* the cycle is over and the lock released: what the next cycle is compared with
CycleEnds(raised) ==
    /\ LockRelease
    /\ prevDb' = db'
    /\ quiet' = NoCallbackActive
    /\ prevFailed' = raised
    /\ failed' = (failed \/ raised)

\* "return" inside the with block
FlushSkip(f) ==
    /\ Fl(f).pc = "skip"
    /\ SetFl(f, [Fl(f) EXCEPT !.pc = "done"])
    /\ UNCHANGED db
    /\ CycleEnds(FALSE)
    /\ UNCHANGED <<engine, buffers, mouse, date, call, second, on_key_press_callback, hk, hpc,
                   quitPosted, wpc, mpc, snap, sent, qualKeys, recorded, nSnaps, caught>>

\* a storage call raises: the exception leaves flush_stats through the with block
FlushRaise(f) ==
    /\ SetFl(f, [Fl(f) EXCEPT !.pc = "raised", !.raised = TRUE])
    /\ UNCHANGED db
    /\ CycleEnds(TRUE)

\* a storage call returns: the row is written
FlushWrote(f, stage, key, newdb) ==
    /\ db' = newdb
    /\ SetFl(f, [Fl(f) EXCEPT !.pc = AfterWrite(stage, Fl(f).i)[1],
                              !.i = AfterWrite(stage, Fl(f).i)[2],
                              !.writes = Append(@, <<stage, key>>)])
    /\ UNCHANGED <<lock, prevDb, quiet, prevFailed, failed>>

\* self.db.update_stats(today, key_buffer, click_buffer, distance_buffer, scroll_buffer)
FlushDaily(f) ==
    /\ Fl(f).pc = "w_daily"
    /\ \/ FlushWrote(f, "w_daily", Fl(f).today,
                     update_stats(db, Fl(f).today, key_buffer, click_buffer,
                                  distance_buffer, scroll_buffer))
       \/ FlushRaise(f)
    /\ UNCHANGED <<engine, buffers, mouse, date, call, second, on_key_press_callback, hk, hpc,
                   quitPosted, wpc, mpc, snap, sent, qualKeys, recorded, nSnaps, caught>>

\* for app, stats in self.app_stats_buffer.items(): self.db.update_app_stats(...)
FlushApp(f) ==
    /\ Fl(f).pc = "w_app"
    /\ LET e == app_stats_buffer[Fl(f).i]
       IN  \/ FlushWrote(f, "w_app", e.k, update_app_stats(db, Fl(f).today, e.k, e.v))
           \/ FlushRaise(f)
    /\ UNCHANGED <<engine, buffers, mouse, date, call, second, on_key_press_callback, hk, hpc,
                   quitPosted, wpc, mpc, snap, sent, qualKeys, recorded, nSnaps, caught>>

\* for key_code, count in self.heatmap_buffer.items(): self.db.update_heatmap(...)
FlushHeat(f) ==
    /\ Fl(f).pc = "w_heat"
    /\ LET e == heatmap_buffer[Fl(f).i]
       IN  \/ FlushWrote(f, "w_heat", e.k, update_heatmap(db, Fl(f).today, e.k, e.v))
           \/ FlushRaise(f)
    /\ UNCHANGED <<engine, buffers, mouse, date, call, second, on_key_press_callback, hk, hpc,
                   quitPosted, wpc, mpc, snap, sent, qualKeys, recorded, nSnaps, caught>>

\* for (x, y), count in self.mouse_heatmap_buffer.items(): self.db.update_mouse_heatmap(...)
FlushMouse(f) ==
    /\ Fl(f).pc = "w_mouse"
    /\ LET e == mouse_heatmap_buffer[Fl(f).i]
       IN  \/ FlushWrote(f, "w_mouse", e.k,
                         update_mouse_heatmap(db, Fl(f).today, e.k[1], e.k[2], e.v))
           \/ FlushRaise(f)
    /\ UNCHANGED <<engine, buffers, mouse, date, call, second, on_key_press_callback, hk, hpc,
                   quitPosted, wpc, mpc, snap, sent, qualKeys, recorded, nSnaps, caught>>

\* "# Reset buffers" to the end of the with block
ResetKeepsCounters ==
    /\ app_stats_buffer' = <<>>
    /\ heatmap_buffer' = <<>>
    /\ mouse_heatmap_buffer' = <<>>
    /\ UNCHANGED <<key_buffer, click_buffer, distance_buffer, scroll_buffer>>

\* a reset that lets the two heatmaps accumulate for the session
ResetKeepsHeatmaps ==
    /\ key_buffer' = 0
    /\ click_buffer' = 0
    /\ distance_buffer' = 0
    /\ scroll_buffer' = 0
    /\ app_stats_buffer' = <<>>
    /\ UNCHANGED <<heatmap_buffer, mouse_heatmap_buffer>>

ResetBuffers ==
    /\ key_buffer' = 0
    /\ click_buffer' = 0
    /\ distance_buffer' = 0
    /\ scroll_buffer' = 0
    /\ app_stats_buffer' = <<>>
    /\ heatmap_buffer' = <<>>
    /\ mouse_heatmap_buffer' = <<>>

FlushReset(f) ==
    /\ Fl(f).pc = "reset"
    /\ ResetBuffers
    /\ SetFl(f, [Fl(f) EXCEPT !.pc = "done"])
    /\ UNCHANGED db
    /\ CycleEnds(FALSE)
    /\ UNCHANGED <<engine, mouse, date, call, second, on_key_press_callback, hk, hpc,
                   quitPosted, wpc, mpc, snap, sent, qualKeys, recorded, nSnaps, caught>>

\* -------------------------------------------------------------- flush_loop
\* "while self.running:"
WorkerLoop ==
    /\ wpc = "loop"
    /\ wpc' = IF running THEN "sleep" ELSE "exited"
    /\ UNCHANGED <<engine, buffers, lock, mouse, db, date, call, second, hk, hpc, quitPosted, mpc,
                   fl, snap, ghost>>

\* time.sleep(5) is over: self.flush_stats()
WorkerWake ==
    /\ wpc = "sleep"
    /\ wpc' = "flush"
    /\ SetFl(FlushWorker, [IdleFlush EXCEPT !.pc = "lock"])
    /\ UNCHANGED <<engine, buffers, lock, mouse, db, date, call, second, hk, hpc, quitPosted, mpc,
                   snap, ghost>>

\* flush_stats raised: nothing in flush_loop catches it, and the thread ends
WorkerAfterRaise == "dead"

\* flush_stats is over: back to the loop test, or out of the thread
WorkerFlushed ==
    /\ wpc = "flush"
    /\ Fl(FlushWorker).pc \in {"done", "raised"}
    /\ wpc' = IF Fl(FlushWorker).pc = "done" THEN "loop" ELSE WorkerAfterRaise
    /\ SetFl(FlushWorker, IdleFlush)
    /\ UNCHANGED <<engine, buffers, lock, mouse, db, date, call, second, hk, hpc, quitPosted, mpc,
                   snap, ghost>>

\* --------------------------------------------------------------- hook_loop
\* self.hook_thread_id = kernel32.GetCurrentThreadId()
HookSetId ==
    /\ hpc = "set_id"
    /\ hook_thread_id' = HookThread
    /\ hpc' = "install_kb"
    /\ UNCHANGED <<running, keyboard_hook, mouse_hook, installed, on_key_press_callback,
                   buffers, lock, mouse, db, date, call, second, hk, quitPosted, wpc, mpc, fl, snap,
                   ghost>>

\* self.keyboard_hook = user32.SetWindowsHookExW(WH_KEYBOARD_LL, ...): a handle or NULL
HookInstallKb ==
    /\ hpc = "install_kb"
    /\ \/ keyboard_hook' = "kb" /\ installed' = installed \cup {"kb"}
       \/ keyboard_hook' = None /\ UNCHANGED installed
    /\ hpc' = "install_ms"
    /\ UNCHANGED <<running, hook_thread_id, mouse_hook, on_key_press_callback,
                   buffers, lock, mouse, db, date, call, second, hk, quitPosted, wpc, mpc, fl, snap,
                   ghost>>

\* self.mouse_hook = user32.SetWindowsHookExW(WH_MOUSE_LL, ...): a handle or NULL
HookInstallMs ==
    /\ hpc = "install_ms"
    /\ \/ mouse_hook' = "ms" /\ installed' = installed \cup {"ms"}
       \/ mouse_hook' = None /\ UNCHANGED installed
    /\ hpc' = "installed"
    /\ UNCHANGED <<running, hook_thread_id, keyboard_hook, on_key_press_callback,
                   buffers, lock, mouse, db, date, call, second, hk, quitPosted, wpc, mpc, fl, snap,
                   ghost>>

\* "if not self.keyboard_hook or not self.mouse_hook: ... return"
HookCheckIgnoresFailure ==
    /\ hpc = "installed"
    /\ hpc' = "pump"
    /\ UNCHANGED <<engine, buffers, lock, mouse, db, date, call, second, hk, quitPosted, wpc, mpc,
                   fl, snap, ghost>>

HookCheck ==
    /\ hpc = "installed"
    /\ hpc' = IF keyboard_hook = None \/ mouse_hook = None THEN "exited" ELSE "pump"
    /\ UNCHANGED <<engine, buffers, lock, mouse, db, date, call, second, hk, quitPosted, wpc, mpc,
                   fl, snap, ghost>>

\* GetMessageW hands a hardware event to the hook installed for it
OsDeliver(proc, ev, limit) ==
    /\ hpc = "pump"
    /\ proc \in installed
    /\ sent[HookThread] < limit
    /\ Invoke(HookThread, proc, ev)

\* GetMessageW returns 0 for WM_QUIT: the loop ends
HookGetQuit ==
    /\ hpc = "pump"
    /\ quitPosted
    /\ Hk(HookThread).pc = "idle"
    /\ hpc' = "unhook"
    /\ UNCHANGED <<engine, buffers, lock, mouse, db, date, call, second, hk, quitPosted, wpc, mpc,
                   fl, snap, ghost>>

\* UnhookWindowsHookEx of both hooks; hook_loop returns
HookUnhook ==
    /\ hpc = "unhook"
    /\ installed' = installed \ {keyboard_hook, mouse_hook}
    /\ hpc' = "exited"
    /\ UNCHANGED <<running, hook_thread_id, keyboard_hook, mouse_hook, on_key_press_callback,
                   buffers, lock, mouse, db, date, call, second, hk, quitPosted, wpc, mpc, fl, snap,
                   ghost>>

\* ---------------------------------------------------------- start and stop
\* self.running = True; the hook thread is started
StartHookThread ==
    /\ mpc = "constructed"
    /\ running' = TRUE
    /\ hpc' = "set_id"
    /\ mpc' = "start_flush"
    /\ UNCHANGED <<hook_thread_id, keyboard_hook, mouse_hook, installed,
                   on_key_press_callback, buffers, lock, mouse, db, date, call, second, hk, quitPosted,
                   wpc, fl, snap, ghost>>

\* the flush thread is started; start() returns
StartFlushThread ==
    /\ mpc = "start_flush"
    /\ wpc' = "loop"
    /\ mpc' = "ui"
    /\ UNCHANGED <<engine, buffers, lock, mouse, db, date, call, second, hk, hpc, quitPosted,
                   fl, snap, ghost>>

\* stop(): self.running = False
StopRunning ==
    /\ mpc = "ui"
    /\ running' = FALSE
    /\ mpc' = "stop_post"
    /\ UNCHANGED <<hook_thread_id, keyboard_hook, mouse_hook, installed,
                   on_key_press_callback, buffers, lock, mouse, db, date, call, second, hk, hpc,
                   quitPosted, wpc, fl, snap, ghost>>

\* "if self.hook_thread_id:" PostThreadMessageW(WM_QUIT); then self.flush_stats()
StopPostQuit ==
    /\ mpc = "stop_post"
    /\ quitPosted' = (quitPosted \/ hook_thread_id # 0)
    /\ mpc' = "stop_flush"
    /\ SetFl(MainThread, [IdleFlush EXCEPT !.pc = "lock"])
    /\ UNCHANGED <<engine, buffers, lock, mouse, db, date, call, second, hk, hpc, wpc, snap,
                   ghost>>

\* flush_stats is over: stop() returns, or raises what flush_stats raised
StopFlushed ==
    /\ mpc = "stop_flush"
    /\ Fl(MainThread).pc \in {"done", "raised"}
    /\ mpc' = IF Fl(MainThread).pc = "done" THEN "stopped" ELSE "stop_raised"
    /\ SetFl(MainThread, IdleFlush)
    /\ UNCHANGED <<engine, buffers, lock, mouse, db, date, call, second, hk, hpc, quitPosted, wpc,
                   snap, ghost>>

\* ------------------------------------------------------ get_stats_snapshot
\* "with self.lock:" of get_stats_snapshot
SnapLockNotTaken ==
    /\ mpc = "ui"
    /\ nSnaps < MaxSnapshots
    /\ mpc' = "snap_stats"
    /\ nSnaps' = nSnaps + 1
    /\ UNCHANGED <<engine, buffers, lock, mouse, db, date, call, second, hk, hpc, quitPosted, wpc, fl, snap,
                   sent, qualKeys, recorded, failed, prevDb, quiet, prevFailed, caught>>

SnapLock ==
    /\ mpc = "ui"
    /\ nSnaps < MaxSnapshots
    /\ LockAcquire(MainThread)
    /\ mpc' = "snap_stats"
    /\ nSnaps' = nSnaps + 1
    /\ UNCHANGED <<engine, buffers, mouse, db, date, call, second, hk, hpc, quitPosted, wpc, fl, snap,
                   sent, qualKeys, recorded, failed, prevDb, quiet, prevFailed, caught>>

\* db_stats = self.db.get_today_stats(), and the four merged totals
SnapStats ==
    /\ mpc = "snap_stats"
    /\ LET db_stats == get_today_stats(db, date)
           found == db_stats # Nil
       IN  snap' = [keys |-> (IF found THEN db_stats.key_count ELSE 0) + key_buffer,
                    clicks |-> (IF found THEN db_stats.mouse_click_count ELSE 0)
                               + click_buffer,
                    distance |-> (IF found THEN db_stats.mouse_distance ELSE 0)
                                 + distance_buffer,
                    scroll |-> (IF found THEN db_stats.scroll_distance ELSE 0)
                               + scroll_buffer]
    /\ mpc' = "snap_heatmap"
    /\ UNCHANGED <<engine, buffers, lock, mouse, db, date, call, second, hk, hpc, quitPosted, wpc, fl,
                   ghost>>

\* db_heatmap = self.db.get_today_heatmap(), the merge, and the buffer-only copies
SnapHeatmap ==
    /\ mpc = "snap_heatmap"
    /\ LET db_heatmap == get_today_heatmap(db, date)
           codes == DOMAIN db_heatmap \cup DictKeys(heatmap_buffer)
           merged == [c \in codes |->
                        (IF c \in DOMAIN db_heatmap THEN db_heatmap[c] ELSE 0)
                        + DictGet(heatmap_buffer, c, 0)]
       IN  snap' = [keys |-> snap.keys, clicks |-> snap.clicks,
                    distance |-> snap.distance, scroll |-> snap.scroll,
                    heatmap |-> merged,
                    buffer_keys |-> key_buffer, buffer_clicks |-> click_buffer,
                    buffer_distance |-> distance_buffer, buffer_scroll |-> scroll_buffer,
                    buffer_heatmap |-> heatmap_buffer]
    /\ mpc' = "snap_unlock"
    /\ UNCHANGED <<engine, buffers, lock, mouse, db, date, call, second, hk, hpc, quitPosted, wpc, fl,
                   ghost>>

\* the end of the with block
SnapUnlock ==
    /\ mpc = "snap_unlock"
    /\ LockRelease
    /\ mpc' = "snap_return"
    /\ UNCHANGED <<engine, buffers, mouse, db, date, call, second, hk, hpc, quitPosted, wpc, fl, snap,
                   ghost>>

\* "return {...}": 'mouse_heatmap': dict(self.mouse_heatmap_buffer) is read here
SnapReturn ==
    /\ mpc = "snap_return"
    /\ snap' = [keys |-> snap.keys, clicks |-> snap.clicks,
                distance |-> snap.distance, scroll |-> snap.scroll,
                heatmap |-> snap.heatmap, mouse_heatmap |-> mouse_heatmap_buffer,
                buffer_keys |-> snap.buffer_keys, buffer_clicks |-> snap.buffer_clicks,
                buffer_distance |-> snap.buffer_distance,
                buffer_scroll |-> snap.buffer_scroll,
                buffer_heatmap |-> snap.buffer_heatmap]
    /\ mpc' = "snap_done"
    /\ UNCHANGED <<engine, buffers, lock, mouse, db, date, call, second, hk, hpc, quitPosted, wpc, fl,
                   ghost>>

\* the caller has used the snapshot
SnapDone ==
    /\ mpc = "snap_done"
    /\ snap' = NoSnap
    /\ mpc' = "ui"
    /\ UNCHANGED <<engine, buffers, lock, mouse, db, date, call, second, hk, hpc, quitPosted, wpc, fl,
                   ghost>>

\* ------------------------------------------------------ the specifications
\* main.py constructs InputTracker() with no key-press callback
Init == InitState /\ on_key_press_callback = None

Callback(t) ==
    \/ CallNextHookEx(t)
    \/ KbClassify(t)
    \/ MsClassify(t)
    \/ HookReturn(t)
    \/ HookDone(t)

OnPress(t) ==
    \/ OnPressLock(t)
    \/ OnPressLoad(t)
    \/ OnPressStore(t)
    \/ OnPressApp(t)
    \/ OnPressUnlock(t)

OnMove(t) ==
    \/ OnMoveBegin(t)
    \/ OnMoveLock(t)
    \/ OnMoveAdd(t)
    \/ OnMoveApp(t)
    \/ OnMoveUnlock(t)

OnClick(t) ==
    \/ OnClickLock(t)
    \/ OnClickAdd(t)
    \/ OnClickApp(t)
    \/ OnClickUnlock(t)

OnScroll(t) ==
    \/ OnScrollLock(t)
    \/ OnScrollAdd(t)
    \/ OnScrollApp(t)
    \/ OnScrollUnlock(t)

FlushStats(f) ==
    \/ FlushLock(f)
    \/ FlushCheck(f)
    \/ FlushSkip(f)
    \/ FlushDaily(f)
    \/ FlushApp(f)
    \/ FlushHeat(f)
    \/ FlushMouse(f)
    \/ FlushReset(f)

FlushLoop == WorkerLoop \/ WorkerWake \/ WorkerFlushed

HookStartup == HookSetId \/ HookInstallKb \/ HookInstallMs \/ HookCheck

HookShutdown == HookGetQuit \/ HookUnhook

Start == StartHookThread \/ StartFlushThread

Stop == StopRunning \/ StopPostQuit \/ StopFlushed

Snapshot == SnapLock \/ SnapStats \/ SnapHeatmap \/ SnapUnlock \/ SnapReturn \/ SnapDone

\* The engine at work: start(), the hook thread and its callbacks, the flush worker.
Next ==
    \/ Start
    \/ HookStartup
    \/ \E ev \in KbInputs : OsDeliver("kb", ev, MaxEvents)
    \/ \E ev \in MsInputs : OsDeliver("ms", ev, MaxEvents)
    \/ Callback(HookThread)
    \/ OnPress(HookThread)
    \/ OnMove(HookThread)
    \/ OnClick(HookThread)
    \/ OnScroll(HookThread)
    \/ FlushLoop
    \/ FlushStats(FlushWorker)

Spec == Init /\ [][Next]_vars

\* The callbacks alone, with or without a registered key-press callback.
InitCallbacks == InitState /\ on_key_press_callback \in {None, "callback"}

NextCallbacks ==
    \/ Start
    \/ HookStartup
    \/ \E ev \in KbInputs : OsDeliver("kb", ev, MaxCallbacks)
    \/ \E ev \in MsInputs : OsDeliver("ms", ev, MaxCallbacks)
    \/ Callback(HookThread)
    \/ OnPress(HookThread)
    \/ OnPressCallback(HookThread)
    \/ OnMove(HookThread)
    \/ OnClick(HookThread)
    \/ OnScroll(HookThread)

SpecCallbacks == InitCallbacks /\ [][NextCallbacks]_vars

\* start(), work, stop(): the flush of stop() runs on the caller's thread, and the
\* hook thread leaves its message loop when WM_QUIT arrives.
StopKbInputs == { KbEvent(0, WM_KEYDOWN, KbStruct(30, 0)) }

StopMsInputs == { MsEvent(0, WM_LBUTTONDOWN, MsStruct(12, 7, Dword(0, 0))) }

NextStop ==
    \/ Start
    \/ HookStartup
    \/ \E ev \in StopKbInputs : OsDeliver("kb", ev, MaxStopEvents)
    \/ \E ev \in StopMsInputs : OsDeliver("ms", ev, MaxStopEvents)
    \/ Callback(HookThread)
    \/ OnPress(HookThread)
    \/ OnClick(HookThread)
    \/ FlushLoop
    \/ FlushStats(FlushWorker)
    \/ Stop
    \/ FlushStats(MainThread)
    \/ HookShutdown

SpecStop == Init /\ [][NextStop]_vars

\* Several threads enter the keyboard callback at once while the flush worker runs.
\* thread t presses its own key
StressInput(t) == KbEvent(0, WM_KEYDOWN, KbStruct(29 + t, 0))

StressCall(t) ==
    /\ sent[t] < MaxPerThread
    /\ Invoke(t, "kb", StressInput(t))

KbCallback(t) ==
    \/ CallNextHookEx(t)
    \/ KbClassify(t)
    \/ HookReturn(t)
    \/ HookDone(t)

FlushKeys(f) ==
    \/ FlushLock(f)
    \/ FlushCheck(f)
    \/ FlushSkip(f)
    \/ FlushDaily(f)
    \/ FlushApp(f)
    \/ FlushHeat(f)
    \/ FlushReset(f)

NextStress ==
    \/ Start
    \/ \E t \in Threads : StressCall(t) \/ KbCallback(t) \/ OnPress(t)
    \/ FlushLoop
    \/ FlushKeys(FlushWorker)

SpecStress == Init /\ [][NextStress]_vars

\* The UI thread polls get_stats_snapshot while the engine works.
NextSnapshot ==
    \/ Start
    \/ HookStartup
    \/ \E ev \in StopKbInputs : OsDeliver("kb", ev, MaxSnapEvents)
    \/ \E ev \in StopMsInputs : OsDeliver("ms", ev, MaxSnapEvents)
    \/ Callback(HookThread)
    \/ OnPress(HookThread)
    \/ OnClick(HookThread)
    \/ FlushLoop
    \/ FlushStats(FlushWorker)
    \/ Snapshot

SpecSnapshot == Init /\ [][NextSnapshot]_vars

\* ---------------------------------------------------------------- measures
DailyKeys == [d \in DOMAIN db.daily_stats |-> db.daily_stats[d].key_count]

DailyClicks == [d \in DOMAIN db.daily_stats |-> db.daily_stats[d].mouse_click_count]

DailyDistance == [d \in DOMAIN db.daily_stats |-> db.daily_stats[d].mouse_distance]

DailyScroll == [d \in DOMAIN db.daily_stats |-> db.daily_stats[d].scroll_distance]

PersistedKeys == FnSum(DailyKeys, DOMAIN DailyKeys)

PersistedClicks == FnSum(DailyClicks, DOMAIN DailyClicks)

PersistedDistance == FnSum(DailyDistance, DOMAIN DailyDistance)

PersistedScroll == FnSum(DailyScroll, DOMAIN DailyScroll)

\* no callback is between its entry and its return, and nobody holds the lock
Quiescent == lock = NoThread /\ NoCallbackActive

EntirelyEmpty(b) ==
    /\ b.key_buffer = 0
    /\ b.click_buffer = 0
    /\ b.distance_buffer = 0
    /\ b.scroll_buffer = 0
    /\ b.app_stats_buffer = <<>>
    /\ b.heatmap_buffer = <<>>
    /\ b.mouse_heatmap_buffer = <<>>

RECURSIVE WithApps(_, _, _)
WithApps(d, day, apps) ==
    IF apps = <<>> THEN d
    ELSE WithApps(update_app_stats(d, day, Head(apps).k, Head(apps).v), day, Tail(apps))

RECURSIVE WithHeat(_, _, _)
WithHeat(d, day, heat) ==
    IF heat = <<>> THEN d
    ELSE WithHeat(update_heatmap(d, day, Head(heat).k, Head(heat).v), day, Tail(heat))

RECURSIVE WithMouse(_, _, _)
WithMouse(d, day, ms) ==
    IF ms = <<>> THEN d
    ELSE WithMouse(update_mouse_heatmap(d, day, Head(ms).k[1], Head(ms).k[2], Head(ms).v),
                   day, Tail(ms))

\* the storage d after every amount of the buffer b was added once under day
WithBuffer(d, day, b) ==
    WithMouse(
        WithHeat(
            WithApps(update_stats(d, day, b.key_buffer, b.click_buffer,
                                  b.distance_buffer, b.scroll_buffer),
                     day, b.app_stats_buffer),
            day, b.heatmap_buffer),
        day, b.mouse_heatmap_buffer)

\* one upsert for the daily row and one for every row of the buffer's maps
RowsOf(day, b) ==
    <<<<"w_daily", day>>>>
    \o [i \in 1..Len(b.app_stats_buffer) |-> <<"w_app", b.app_stats_buffer[i].k>>]
    \o [i \in 1..Len(b.heatmap_buffer) |-> <<"w_heat", b.heatmap_buffer[i].k>>]
    \o [i \in 1..Len(b.mouse_heatmap_buffer) |-> <<"w_mouse", b.mouse_heatmap_buffer[i].k>>]

\* the cycle of f has made its last storage call and is about to leave the lock
CycleComplete(f) == Fl(f).pc \in {"skip", "reset"}

\* ------------------------------------------------------------------ claims
\* C1: with no flush failure, whenever no callback is in progress and no flush
\* holds the lock, the buffered key count plus the key count persisted so far
\* equals the number of keyboard callbacks with nCode >= 0 whose message was
\* key-down or system-key-down and whose injected flag was clear.
C1_KeysCountedOnce ==
    (Quiescent /\ ~failed) => key_buffer + PersistedKeys = qualKeys

C1_Witness ==
    /\ Quiescent
    /\ ~failed
    /\ sent[HookThread] = 2
    /\ qualKeys = 2
    /\ PersistedKeys = 1
    /\ key_buffer = 1

\* C3: in both callbacks CallNextHookEx is called exactly once per invocation,
\* before the classification and before any aggregator call, whatever the
\* event (nCode < 0, injected, raising), and the callback returns its result.
C3_ForwardFirstOnce ==
    \A t \in Threads :
        /\ Hk(t).pc = "called" => Hk(t).fwd = 0
        /\ Hk(t).pc \notin {"idle", "called"} =>
               Hk(t).fwd = 1 /\ Hk(t).result \in ChainResults
        /\ Hk(t).pc = "returned" => Hk(t).ret = Hk(t).result

C3_Witness ==
    \E t \in Threads :
        /\ Hk(t).pc = "returned"
        /\ Hk(t).raised
        /\ Hk(t).proc = "ms"
        /\ Hk(t).fwd = 1
        /\ Hk(t).ret = 1
        /\ sent[t] = 3

\* C4: an exception raised by the classification or by the registered
\* key-press callback never leaves the hook callback: the callback returns the
\* pass-through result without holding the lock, both hooks stay installed, and
\* the callbacks after it are counted as usual.
C4_ExceptionsStayInside ==
    /\ \A t \in Threads :
          /\ Hk(t).pc # "escaped"
          /\ (Hk(t).raised /\ Hk(t).pc \in {"ret", "returned"}) =>
                 /\ lock # t
                 /\ installed = {"kb", "ms"}
                 /\ Hk(t).fwd = 1
                 /\ Hk(t).pc = "returned" => Hk(t).ret = Hk(t).result
    /\ (caught > 0 /\ Quiescent) => key_buffer + PersistedKeys = qualKeys

C4_Witness ==
    /\ caught = 2
    /\ Quiescent
    /\ Hk(HookThread).pc = "returned"
    /\ ~Hk(HookThread).raised
    /\ CountsAsKey(Hk(HookThread).ev)
    /\ key_buffer = qualKeys
    /\ installed = {"kb", "ms"}

\* C5: a flush cycle that starts with a non-empty buffer and meets no storage
\* failure has, when it ends, added every buffered amount to its row of the
\* current date exactly once, by one upsert per row of the buffer and no other.
C5_FlushPersistsBuffer ==
    \A f \in Executors :
        (CycleComplete(f) /\ ~EntirelyEmpty(Fl(f).buf0)) =>
            LET day == IF Fl(f).pc = "skip" THEN date ELSE Fl(f).today IN
            /\ db = WithBuffer(Fl(f).db0, day, Fl(f).buf0)
            /\ Fl(f).writes = RowsOf(day, Fl(f).buf0)

\* C7: a flush cycle that starts with an entirely empty buffer makes no storage
\* call and leaves the buffer as it was.
C7_EmptyFlushIsNoop ==
    \A f \in Executors :
        (InCycle(f) /\ EntirelyEmpty(Fl(f).buf0)) =>
            /\ Fl(f).pc \in {"check", "skip"}
            /\ Fl(f).writes = <<>>
            /\ db = Fl(f).db0
            /\ Buffers = Fl(f).buf0

C7_Witness ==
    /\ Fl(FlushWorker).pc = "skip"
    /\ EntirelyEmpty(Fl(FlushWorker).buf0)
    /\ PersistedKeys = 1
    /\ qualKeys = 1

\* C2: when every thread has delivered its key-down events through the keyboard
\* callback, concurrently with the others and with flush cycles none of which
\* failed, the persisted plus the buffered key count is the number of events
\* delivered, MaxThreads * MaxPerThread at the end: none lost, none counted twice.
C2_NoLostKeyUnderStress ==
    (Quiescent /\ ~failed) =>
        /\ key_buffer + PersistedKeys = FnSum(sent, Threads)
        /\ (\A t \in Threads : sent[t] = MaxPerThread) =>
               key_buffer + PersistedKeys = MaxThreads * MaxPerThread

C2_Witness ==
    /\ Quiescent
    /\ ~failed
    /\ \A t \in Threads : sent[t] = MaxPerThread
    /\ PersistedKeys > 0
    /\ key_buffer > 0
    /\ key_buffer + PersistedKeys = MaxThreads * MaxPerThread

C8_NeverPersistedTwice ==
    /\ PersistedKeys <= recorded.keys
    /\ PersistedClicks <= recorded.clicks
    /\ PersistedDistance <= recorded.distance
    /\ PersistedScroll <= recorded.scroll

\* C9: a storage failure in a periodic flush cycle does not end the flush
\* worker: while the engine is running the worker is alive to flush again.
C9_WorkerSurvivesFailure ==
    (running /\ failed) => wpc \in {"loop", "sleep", "flush"}

\* C10: get_stats_snapshot never queries storage while it holds the lock, so no
\* callback of the hook thread waits for the lock during a snapshot's query.
C10_SnapshotQueriesOutsideLock ==
    mpc \in {"snap_stats", "snap_heatmap"} => lock # MainThread

\* today's persisted row of daily_stats, zero where there is none
PersistedToday ==
    IF date \in DOMAIN db.daily_stats THEN db.daily_stats[date] ELSE DailyRow(0, 0, 0, 0)

\* today's persisted count of a scan code
PersistedCode(c) ==
    IF <<date, c>> \in DOMAIN db.heatmap_data THEN db.heatmap_data[<<date, c>>] ELSE 0

\* C11: a snapshot holds, for keys, clicks, distance and scroll, today's
\* persisted total plus the buffered amount, and for each scan code today's
\* persisted count plus the buffered count; with no storage failure its keys
\* value is the number of key presses recorded so far, however the flush cycles
\* interleave with it.
C11_SnapshotMergesOnce ==
    mpc = "snap_unlock" =>
        /\ snap.keys = PersistedToday.key_count + key_buffer
        /\ snap.clicks = PersistedToday.mouse_click_count + click_buffer
        /\ snap.distance = PersistedToday.mouse_distance + distance_buffer
        /\ snap.scroll = PersistedToday.scroll_distance + scroll_buffer
        /\ DOMAIN snap.heatmap =
               {k[2] : k \in {r \in DOMAIN db.heatmap_data : r[1] = date}}
               \cup DictKeys(heatmap_buffer)
        /\ \A c \in DOMAIN snap.heatmap :
               snap.heatmap[c] = PersistedCode(c) + DictGet(heatmap_buffer, c, 0)
        /\ ~failed => snap.keys = recorded.keys /\ snap.clicks = recorded.clicks

C11_Witness ==
    /\ mpc = "snap_unlock"
    /\ ~failed
    /\ recorded.keys = 2
    /\ PersistedToday.key_count = 1
    /\ key_buffer = 1
    /\ snap.keys = 2
    /\ snap.heatmap[30] = 2
    /\ wpc = "sleep"

\* the 5-pixel buckets persisted today, and the persisted count of one
BucketsToday == {<<k[2], k[3]>> : k \in {r \in DOMAIN db.mouse_heatmap_data : r[1] = date}}

PersistedBucket(b) ==
    IF <<date, b[1], b[2]>> \in DOMAIN db.mouse_heatmap_data
    THEN db.mouse_heatmap_data[<<date, b[1], b[2]>>]
    ELSE 0

\* C12: the mouse heatmap a snapshot returns is a merged view: read while no
\* flush cycle is in progress, it holds for every 5-pixel bucket today's
\* persisted click count plus the buffered count, so a click stays in it after
\* the flush that persisted it.
C12_MouseHeatmapMerged ==
    [][(mpc = "snap_return" /\ mpc' = "snap_done" /\ lock = NoThread) =>
           \A b \in BucketsToday \cup DictKeys(mouse_heatmap_buffer) :
               DictGet(snap'.mouse_heatmap, b, 0)
                   = PersistedBucket(b) + DictGet(mouse_heatmap_buffer, b, 0)]_vars

\* both SetWindowsHookExW calls are over and at least one returned NULL
HookInstallFailed ==
    /\ hpc \in {"installed", "pump", "unhook", "exited"}
    /\ keyboard_hook = None \/ mouse_hook = None

SnapshotFields ==
    {"keys", "clicks", "distance", "scroll", "heatmap", "mouse_heatmap", "buffer_keys",
     "buffer_clicks", "buffer_distance", "buffer_scroll", "buffer_heatmap"}

\* C13: when the installation of either hook fails, the hook thread returns
\* without entering its message loop, start() ends normally, nothing is ever
\* recorded, and every get_stats_snapshot after it returns the complete
\* structure with its buffer-only fields zero and its totals the persisted ones.
C13_FailedInstallIsInert ==
    HookInstallFailed =>
        /\ hpc \in {"installed", "exited"}
        /\ mpc \in {"start_flush", "ui", "snap_stats", "snap_heatmap", "snap_unlock",
                    "snap_return", "snap_done"}
        /\ \A t \in Threads : Hk(t).pc = "idle" /\ sent[t] = 0
        /\ EntirelyEmpty(Buffers)
        /\ mpc = "snap_done" =>
               /\ DOMAIN snap = SnapshotFields
               /\ snap.buffer_keys = 0
               /\ snap.buffer_clicks = 0
               /\ snap.buffer_distance = 0
               /\ snap.buffer_scroll = 0
               /\ snap.buffer_heatmap = <<>>
               /\ snap.mouse_heatmap = <<>>
               /\ snap.keys = PersistedToday.key_count
               /\ snap.clicks = PersistedToday.mouse_click_count
               /\ snap.distance = PersistedToday.mouse_distance
               /\ snap.scroll = PersistedToday.scroll_distance
               /\ \A c \in DOMAIN snap.heatmap : snap.heatmap[c] = PersistedCode(c)

C13_Witness ==
    /\ HookInstallFailed
    /\ keyboard_hook = "kb"
    /\ mouse_hook = None
    /\ hpc = "exited"
    /\ mpc = "snap_done"
    /\ DOMAIN snap = SnapshotFields
    /\ snap.keys = 0
    /\ wpc = "sleep"

\* C14: a failed hook installation takes the engine back to Stopped: once the
\* hook thread has returned from it the engine is not marked running, no hook
\* remains installed, and no flush worker keeps cycling.
C14_FailedInstallReturnsToStopped ==
    (HookInstallFailed /\ hpc = "exited") =>
        /\ ~running
        /\ wpc \notin {"loop", "sleep", "flush"}
        /\ installed = {}

\* start() and stop() under fair scheduling: every thread that can take a step
\* eventually takes one; the OS owes no event and the caller owes no stop().
HookThreadStep ==
    \/ HookStartup
    \/ HookShutdown
    \/ KbCallback(HookThread)
    \/ OnPress(HookThread)

MainThreadStep ==
    \/ StartFlushThread
    \/ StopPostQuit
    \/ StopFlushed
    \/ FlushKeys(MainThread)

FlushWorkerStep == FlushLoop \/ FlushKeys(FlushWorker)

NextShutdown ==
    \/ Start
    \/ HookStartup
    \/ \E ev \in StopKbInputs : OsDeliver("kb", ev, MaxLifeEvents)
    \/ KbCallback(HookThread)
    \/ OnPress(HookThread)
    \/ FlushLoop
    \/ FlushKeys(FlushWorker)
    \/ Stop
    \/ FlushKeys(MainThread)
    \/ HookShutdown

SpecShutdown ==
    /\ Init
    /\ [][NextShutdown]_vars
    /\ WF_vars(HookThreadStep)
    /\ WF_vars(MainThreadStep)
    /\ WF_vars(FlushWorkerStep)

\* C15: after a stop() that follows a start() whose hooks were installed, the
\* hook thread eventually leaves its message loop, removes both hooks and
\* terminates, however stop() interleaves with the hook thread's startup; and
\* the set of installed hooks changes only in a step of the hook thread.
C15_StopEndsHookThread ==
    /\ (mpc = "stopped" /\ keyboard_hook = "kb" /\ mouse_hook = "ms")
           ~> (hpc = "exited" /\ installed = {})
    /\ [][installed' # installed =>
              (hpc \in {"install_kb", "install_ms", "unhook"} /\ mpc' = mpc)]_vars

\* C16: stop() waits for the hook thread: stop() has not returned before the
\* hook thread has noticed the quit signal and exited.
C16_StopJoinsHookThread ==
    mpc = "stopped" => hpc = "exited"

\* C17: absent storage failures, once stop() has returned, the hook thread has
\* exited and the flush worker has ended, every recorded event is persisted and
\* all buffers are empty.
C17_NothingLeftBehind ==
    (mpc = "stopped" /\ hpc = "exited" /\ wpc = "exited" /\ ~failed) =>
        /\ EntirelyEmpty(Buffers)
        /\ PersistedKeys = recorded.keys
        /\ PersistedClicks = recorded.clicks
        /\ PersistedDistance = recorded.distance
        /\ PersistedScroll = recorded.scroll

\* the multiple of 5 at or below x
Floor5(x) == CHOOSE m \in (x - 4)..x : m % 5 = 0

Coords == (0 - MaxCoord)..MaxCoord

\* a mouse callback that low_level_mouse_proc hands to on_click
IsClick(h) ==
    /\ h.proc = "ms"
    /\ h.ev.nCode >= 0
    /\ h.ev.lParam # NULL
    /\ h.ev.wParam \in {WM_LBUTTONDOWN, WM_RBUTTONDOWN, WM_MBUTTONDOWN}

\* C18: for every click coordinate, negative ones included, on_click increments
\* exactly one mouse-heatmap bucket, keyed (floor(x/5)*5, floor(y/5)*5), and the
\* bucket of a bucket key is that key, so (12,7) and (10,5) both land in (10,5).
C18_ClickBucket ==
    /\ \A x \in Coords : Bin(x) = Floor5(x) /\ Bin(Bin(x)) = Bin(x)
    /\ <<Bin(12), Bin(7)>> = <<10, 5>> /\ <<Bin(10), Bin(5)>> = <<10, 5>>
    /\ \A k \in DictKeys(mouse_heatmap_buffer) : k = <<Floor5(k[1]), Floor5(k[2])>>
    /\ \A t \in Threads :
          (IsClick(Hk(t)) /\ Hk(t).pc \in {"click_unlock", "ret", "returned"}) =>
              DictGet(mouse_heatmap_buffer,
                      <<Floor5(Hk(t).ev.lParam.x), Floor5(Hk(t).ev.lParam.y)>>, 0) >= 1
    /\ Quiescent => DictSum(mouse_heatmap_buffer) = click_buffer

C18_Witness ==
    /\ Quiescent
    /\ click_buffer = 3
    /\ DictGet(mouse_heatmap_buffer, <<10, 5>>, 0) = 2
    /\ DictGet(mouse_heatmap_buffer, <<-5, 5>>, 0) = 1
    /\ Len(mouse_heatmap_buffer) = 2

RECURSIVE AppDistanceSum(_)
AppDistanceSum(d) == IF d = <<>> THEN 0 ELSE Head(d).v.distance + AppDistanceSum(Tail(d))

RECURSIVE AppScrollSum(_)
AppScrollSum(d) == IF d = <<>> THEN 0 ELSE Head(d).v.scrolls + AppScrollSum(Tail(d))

\* the Euclidean length of the displacement from the previous position to (x, y)
Displacement(x, y) ==
    LET dx == x - last_mouse_pos[1]
        dy == y - last_mouse_pos[2]
    IN  CHOOSE r \in 0..(Abs(dx) + Abs(dy)) : r * r = dx * dx + dy * dy

\* d / pxPerMm / 1000 in the unit of distance_buffer, 1/(1000 * screen_width_px) metres
Convert(d) == d * screen_width_mm

\* a mouse callback that has a displacement to add
IsMeasuredMove(h) == h.pc \in {"move_lock", "move_add", "move_app", "move_unlock"}

\* C19: after the move that sets the position, every mouse move adds to the
\* global distance buffer, and to the per-application distances in total, the
\* Euclidean length of its displacement from the previous position divided by
\* pxPerMm and by 1000; two moves add the sum of the two.
C19_DistanceAdditive ==
    /\ [](\A t \in Threads :
            IsMeasuredMove(Hk(t)) =>
                Hk(t).tmp = Convert(Displacement(Hk(t).ev.lParam.x, Hk(t).ev.lParam.y)))
    /\ [](Quiescent => AppDistanceSum(app_stats_buffer) = distance_buffer)
    /\ [][distance_buffer' # distance_buffer =>
              \E t \in Threads :
                  /\ IsMeasuredMove(Hk(t))
                  /\ distance_buffer' = distance_buffer
                       + Convert(Displacement(Hk(t).ev.lParam.x, Hk(t).ev.lParam.y))]_vars

C19_Witness ==
    /\ Quiescent
    /\ sent[HookThread] = 3
    /\ last_mouse_pos = <<0, 0>>
    /\ distance_buffer = Convert(5) + Convert(5)
    /\ AppDistanceSum(app_stats_buffer) = Convert(5) + Convert(5)

\* C20: on_scroll(delta) adds abs(delta)/120 to the global scroll accumulator
\* and the same amount to the active application's scroll counter, so the
\* per-application scroll counters add up to the global accumulator (which the
\* model holds in 120ths of a notch).
C20_ScrollPerAppMatchesGlobal ==
    Quiescent => 120 * AppScrollSum(app_stats_buffer) = scroll_buffer

RECURSIVE AppKeySum(_)
AppKeySum(d) == IF d = <<>> THEN 0 ELSE Head(d).v.keys + AppKeySum(Tail(d))

RECURSIVE AppClickSum(_)
AppClickSum(d) == IF d = <<>> THEN 0 ELSE Head(d).v.clicks + AppClickSum(Tail(d))

\* the resolution failed somewhere: the process is gone, or its name or its
\* executable path cannot be read
ResolutionFailed(r) == r.process = "gone" \/ r.name = "raises" \/ r.exe = "raises"

\* the resolution failed before a name was obtained
NameUnavailable(r) == r.process = "gone" \/ r.name = "raises"

\* the callback of thread t has just resolved the foreground application
Resolved(t) == hk[t].res = Nil /\ hk'[t].res # Nil

\* the entry of application name grows by the event the callback of t records
AttributedTo(t, name) ==
    LET before == AppEntry(app_stats_buffer, name)
        after  == AppEntry(app_stats_buffer', name)
        pc     == hk'[t].pc
    IN  /\ pc \in {"press_unlock", "move_unlock", "click_unlock", "scroll_unlock"}
        /\ ~hk'[t].raised
        /\ pc = "press_unlock" =>
              after = [before EXCEPT !.keys = @ + 1] /\ key_buffer' >= after.keys
        /\ pc = "click_unlock" =>
              after = [before EXCEPT !.clicks = @ + 1] /\ click_buffer' >= after.clicks
        /\ pc = "scroll_unlock" => after = [before EXCEPT !.scrolls = @ + 1]
        /\ pc = "move_unlock" =>
              after = [before EXCEPT !.distance = @ + hk[t].tmp]
              /\ distance_buffer' >= after.distance

ResolvingApp(t) == Hk(t).pc \in {"press_app", "move_app", "click_app", "scroll_app"}

\* the cycle of f is in a storage call
WritingStorage(f) == Fl(f).pc \in {"w_daily", "w_app", "w_heat", "w_mouse"}

\* C28: the lock is held only for in-memory work: no record operation resolves
\* the foreground process, and no flush cycle writes to storage, while it holds
\* the lock.
C28_LockOnlyForMemoryWork ==
    /\ \A t \in Threads : ResolvingApp(t) => lock # t
    /\ \A f \in Executors : WritingStorage(f) => lock # f

\* C29: when a flush_stats call returns normally the whole buffer is empty, the
\* four counters zero and the three maps empty.
C29_FlushLeavesBufferEmpty ==
    [][\A f \in Executors :
          (fl[f].pc # "done" /\ fl'[f].pc = "done") => EntirelyEmpty(Buffers')]_vars

\* a counter of the per-application entry grew smaller
AppEntryDecreased(before, after) ==
    \/ after.keys < before.keys
    \/ after.clicks < before.clicks
    \/ after.scrolls < before.scrolls
    \/ after.distance < before.distance

\* this step makes a counter smaller or takes an entry out of a map
BufferDecreases ==
    /\ buffers' # buffers
    /\ \/ key_buffer' < key_buffer
       \/ click_buffer' < click_buffer
       \/ distance_buffer' < distance_buffer
       \/ scroll_buffer' < scroll_buffer
       \/ \E a \in DictKeys(app_stats_buffer) :
             \/ ~DictHas(app_stats_buffer', a)
             \/ AppEntryDecreased(AppEntry(app_stats_buffer, a), AppEntry(app_stats_buffer', a))
       \/ \E c \in DictKeys(heatmap_buffer) :
             DictGet(heatmap_buffer', c, -1) < DictGet(heatmap_buffer, c, 0)
       \/ \E b \in DictKeys(mouse_heatmap_buffer) :
             DictGet(mouse_heatmap_buffer', b, -1) < DictGet(mouse_heatmap_buffer, b, 0)

\* this step is the end of a cycle of f that made every storage call of its
\* buffer, none of which raised
LastStepOfCleanCycle(f) ==
    /\ fl[f].pc = "reset"
    /\ fl'[f].pc = "done"
    /\ ~fl'[f].raised
    /\ lock = f
    /\ Buffers = fl[f].buf0
    /\ fl[f].writes = RowsOf(fl[f].today, fl[f].buf0)
    /\ db = WithBuffer(fl[f].db0, fl[f].today, fl[f].buf0)

\* C30: the buffers are reset only as the last step of a flush cycle in which
\* every storage write succeeded; when a write raises, every counter and map
\* has the value it had when the cycle began; no other step makes a counter
\* smaller or removes a map entry.
C30_ResetOnlyAfterCleanCycle ==
    /\ [][BufferDecreases => \E f \in Executors : LastStepOfCleanCycle(f)]_vars
    /\ [][\A f \in Executors :
            (fl[f].pc # "raised" /\ fl'[f].pc = "raised") =>
                /\ Buffers' = fl[f].buf0
                /\ ~EntirelyEmpty(Buffers')]_vars
    /\ [](\A f \in Executors :
            (InCycle(f) /\ Fl(f).pc # "lock") => Buffers = Fl(f).buf0)

C30_Witness ==
    /\ Fl(FlushWorker).pc = "raised"
    /\ Len(Fl(FlushWorker).writes) = 2
    /\ Buffers = Fl(FlushWorker).buf0
    /\ key_buffer = 1
    /\ Len(heatmap_buffer) = 1
    /\ db # EmptyDb

\* ------------------------------------------------------- the screen metrics

\* InputTracker.__init__ calls _init_screen_metrics with what the display answers
InitScreenMetrics ==
    /\ call = NoCall
    /\ \E m \in MetricInputs :
         call' = [op |-> "_init_screen_metrics", in |-> m, out |-> init_screen_metrics(m)]
    /\ UNCHANGED <<engine, buffers, lock, mouse, db, date, second, threads, ghost>>

NextMetrics == InitScreenMetrics

SpecMetrics == Init /\ [][NextMetrics]_vars

\* two ratios <<num, den>> are the same number
SameRatio(p, q) == p[1] * q[2] = q[1] * p[2]

\* C22: px_per_mm is the width in pixels over the width in millimetres when the
\* metrics are available and non-zero; when the width or the height in
\* millimetres is zero, or the metrics are unavailable, it is 96 / 25.4.
C22_FallbackIs96Dpi ==
    call.op = "_init_screen_metrics" =>
        LET m == call.in
            r == call.out.px_per_mm
        IN  /\ (m.available /\ m.HORZSIZE > 0 /\ m.VERTSIZE > 0
                    /\ m.HORZRES > 0 /\ m.VERTRES > 0)
                  => SameRatio(r, <<m.HORZRES, m.HORZSIZE>>)
            /\ (~m.available \/ m.HORZSIZE = 0 \/ m.VERTSIZE = 0)
                  => SameRatio(r, <<960, 254>>)

\* -------------------------------------------------------------- the storage
MaxUpserts == 3
\* calls of the exporter in SpecExport
MaxExports == 1

\* the dates, scan codes, applications and buckets the storage is called with
StorageDays == {-1, 0, 1}
StorageAppDays == {0, 1}
StorageMouseDays == {1}
StorageCodes == {30, 31}
StorageApps == {"X", "Y"}
StorageBuckets == {<<0, 0>>, <<5, -5>>}
StorageCounts == {1, 2}
StorageDaily == {DailyRow(2, 1, 5, 3)}
StorageAppStats == {AppRow(1, 0, 0, 0)}

\* the upserts made so far to each table: how many times each was made
NoUpserts ==
    [daily_stats |-> <<>>, app_stats |-> <<>>, heatmap_data |-> <<>>,
     mouse_heatmap_data |-> <<>>]

Ledger == IF call = NoCall THEN NoUpserts ELSE call.log

\* the number of upserts in a bag of them
Size(ups) == FnSum(ups, DOMAIN ups)

\* the number of upserts made so far
Upserts ==
    Size(Ledger.daily_stats) + Size(Ledger.app_stats) + Size(Ledger.heatmap_data)
        + Size(Ledger.mouse_heatmap_data)

\* the number of exporter calls made so far
Exports == IF call = NoCall THEN 0 ELSE call.exports

\* one upsert has been made
Upserted(table, day, key, delta) ==
    LET e == [day |-> day, key |-> key, delta |-> delta]
    IN  [Ledger EXCEPT ![table] = IF e \in DOMAIN @ THEN [@ EXCEPT ![e] = @ + 1]
                                  ELSE @ @@ (e :> 1)]

CallUpdateStats ==
    /\ Upserts < MaxUpserts
    /\ \E day \in StorageDays, r \in StorageDaily :
         /\ db' = update_stats(db, isoformat(day), r.key_count, r.mouse_click_count,
                               r.mouse_distance, r.scroll_distance)
         /\ call' = [op |-> "update_stats", exports |-> Exports,
                     log |-> Upserted("daily_stats", day, <<>>, r)]
    /\ UNCHANGED <<engine, buffers, lock, mouse, date, second, threads, ghost>>

CallUpdateAppStats ==
    /\ Upserts < MaxUpserts
    /\ \E day \in StorageAppDays, app \in StorageApps, r \in StorageAppStats :
         /\ db' = update_app_stats(db, isoformat(day), app, r)
         /\ call' = [op |-> "update_app_stats", exports |-> Exports,
                     log |-> Upserted("app_stats", day, app, r)]
    /\ UNCHANGED <<engine, buffers, lock, mouse, date, second, threads, ghost>>

CallUpdateHeatmap ==
    /\ Upserts < MaxUpserts
    /\ \E day \in StorageDays, code \in StorageCodes, count \in StorageCounts :
         /\ db' = update_heatmap(db, isoformat(day), code, count)
         /\ call' = [op |-> "update_heatmap", exports |-> Exports,
                     log |-> Upserted("heatmap_data", day, code, count)]
    /\ UNCHANGED <<engine, buffers, lock, mouse, date, second, threads, ghost>>

CallUpdateMouseHeatmap ==
    /\ Upserts < MaxUpserts
    /\ \E day \in StorageMouseDays, b \in StorageBuckets :
         /\ db' = update_mouse_heatmap(db, isoformat(day), b[1], b[2], 1)
         /\ call' = [op |-> "update_mouse_heatmap", exports |-> Exports,
                     log |-> Upserted("mouse_heatmap_data", day, b, 1)]
    /\ UNCHANGED <<engine, buffers, lock, mouse, date, second, threads, ghost>>

CallGetHeatmapRange ==
    /\ \E start_date \in StorageDays, end_date \in StorageDays :
         call' = [op |-> "get_heatmap_range", exports |-> Exports, log |-> Ledger,
                  start_date |-> start_date, end_date |-> end_date,
                  out |-> get_heatmap_range(db, start_date, end_date)]
    /\ UNCHANGED <<engine, buffers, lock, mouse, db, date, second, threads, ghost>>

NextStorage ==
    \/ CallUpdateStats
    \/ CallUpdateAppStats
    \/ CallUpdateHeatmap
    \/ CallUpdateMouseHeatmap
    \/ CallGetHeatmapRange

SpecStorage == Init /\ [][NextStorage]_vars

\* the upserts of the ledger made to one row
UpsertsOf(log, table, day, key) ==
    [e \in {x \in DOMAIN log[table] : x.day = day /\ x.key = key} |-> log[table][e]]

\* the sum of the counts upserted
CountTotal(log) == FnSum([e \in DOMAIN log |-> log[e] * e.delta], DOMAIN log)

DailyTimes(r, n) ==
    DailyRow(n * r.key_count, n * r.mouse_click_count, n * r.mouse_distance,
             n * r.scroll_distance)

RECURSIVE DailySum(_, _)
DailySum(log, S) ==
    IF S = {} THEN DailyRow(0, 0, 0, 0)
    ELSE LET e == CHOOSE x \in S : TRUE
         IN  AddDaily(DailyTimes(e.delta, log[e]), DailySum(log, S \ {e}))

\* the sum of the daily rows upserted
DailyTotal(log) == DailySum(log, DOMAIN log)

AppTimes(r, n) == AppRow(n * r.keys, n * r.clicks, n * r.scrolls, n * r.distance)

RECURSIVE AppSum(_, _)
AppSum(log, S) ==
    IF S = {} THEN AppRow(0, 0, 0, 0)
    ELSE LET e == CHOOSE x \in S : TRUE
         IN  AddApp(AppTimes(e.delta, log[e]), AppSum(log, S \ {e}))

\* the sum of the per-application rows upserted
AppTotal(log) == AppSum(log, DOMAIN log)

\* the upserts of the ledger for one scan code on the days from first to last
UpsertsInRange(log, code, first, last) ==
    [e \in {x \in DOMAIN log.heatmap_data :
                x.key = code /\ first <= x.day /\ x.day <= last} |-> log.heatmap_data[e]]

\* C23: after any sequence of update_stats, update_app_stats, update_heatmap and
\* update_mouse_heatmap calls a row exists exactly when its key was upserted and
\* holds the sum of the deltas upserted for that key, and get_heatmap_range
\* returns for a scan code the sum of its counts over the dates of the
\* inclusive range.
C23_UpsertsAdditiveAndKeyed ==
    /\ \A day \in StorageDays :
         LET ups == UpsertsOf(Ledger, "daily_stats", day, <<>>) IN
         IF DOMAIN ups = {} THEN isoformat(day) \notin DOMAIN db.daily_stats
         ELSE /\ isoformat(day) \in DOMAIN db.daily_stats
              /\ db.daily_stats[isoformat(day)] = DailyTotal(ups)
    /\ \A day \in StorageDays, app \in StorageApps :
         LET ups == UpsertsOf(Ledger, "app_stats", day, app)
             key == <<isoformat(day), app>>
         IN  IF DOMAIN ups = {} THEN key \notin DOMAIN db.app_stats
             ELSE key \in DOMAIN db.app_stats /\ db.app_stats[key] = AppTotal(ups)
    /\ \A day \in StorageDays, code \in StorageCodes :
         LET ups == UpsertsOf(Ledger, "heatmap_data", day, code)
             key == <<isoformat(day), code>>
         IN  IF DOMAIN ups = {} THEN key \notin DOMAIN db.heatmap_data
             ELSE key \in DOMAIN db.heatmap_data /\ db.heatmap_data[key] = CountTotal(ups)
    /\ \A day \in StorageDays, b \in StorageBuckets :
         LET ups == UpsertsOf(Ledger, "mouse_heatmap_data", day, b)
             key == <<isoformat(day), b[1], b[2]>>
         IN  IF DOMAIN ups = {} THEN key \notin DOMAIN db.mouse_heatmap_data
             ELSE /\ key \in DOMAIN db.mouse_heatmap_data
                  /\ db.mouse_heatmap_data[key] = CountTotal(ups)
    /\ call.op = "get_heatmap_range" =>
         \A code \in StorageCodes :
            LET ups == UpsertsInRange(Ledger, code, call.start_date, call.end_date) IN
            IF DOMAIN ups = {} THEN code \notin DOMAIN call.out
            ELSE code \in DOMAIN call.out /\ call.out[code] = CountTotal(ups)

C23_Witness ==
    /\ call.op = "get_heatmap_range"
    /\ call.start_date = 0
    /\ call.end_date = 1
    /\ Size(UpsertsOf(Ledger, "heatmap_data", -1, 30)) = 1
    /\ Size(UpsertsOf(Ledger, "heatmap_data", 0, 30)) = 2
    /\ call.out = (30 :> 3)
    /\ db.heatmap_data[<<<<2024, 2, 29>>, 30>>] = 3

\* ------------------------------------------------------------- the exporter

\* the tables init_db creates
Schema ==
    {"daily_stats", "app_stats", "heatmap_data", "mouse_heatmap_data",
     "hourly_app_stats", "app_metadata"}

\* cursor.execute on a table raises sqlite3.OperationalError when it is missing
TableExists(table) == table \in Schema

\* where a call may fail: nowhere, sqlite3.connect, cursor.execute, open(filepath),
\* a write to the file
ExportFaults == {"none", "connect", "query", "open", "write"}

\* an optional date: <<>> is None, <<n>> the date of day n
OptDates == {<<>>} \cup {<<n>> : n \in StorageDays}

\* the arguments the exports are called with: every pair of optional dates on a
\* run without fault, and every fault on a run without dates
ExportInputs ==
    {<<s, e, "none">> : s \in OptDates, e \in OptDates}
    \cup {<<<<>>, <<>>, f>> : f \in ExportFaults}

RangeTypes == {"today", "week", "month", "year", "all", "other"}

\* _get_date_range with a week of eight days
GetDateRangeLongWeek(range_type, today) ==
    IF range_type = "today" THEN <<<<today>>, <<today>>>>
    ELSE IF range_type = "week" THEN <<<<today - 7>>, <<today>>>>
    ELSE IF range_type = "month" THEN <<<<today - 29>>, <<today>>>>
    ELSE IF range_type = "year" THEN <<<<today - 364>>, <<today>>>>
    ELSE <<<<>>, <<>>>>

\* _get_date_range: (start_date, end_date), today being datetime.date.today()
get_date_range(range_type, today) ==
    IF range_type = "today" THEN <<<<today>>, <<today>>>>
    ELSE IF range_type = "week" THEN <<<<today - 6>>, <<today>>>>
    ELSE IF range_type = "month" THEN <<<<today - 29>>, <<today>>>>
    ELSE IF range_type = "year" THEN <<<<today - 364>>, <<today>>>>
    ELSE <<<<>>, <<>>>>

\* "if start_date and end_date:"
Ranged(start_date, end_date) == start_date # <<>> /\ end_date # <<>>

\* the WHERE clause of the query that "if start_date and end_date" selects
InRange(text, start_date, end_date) ==
    Ranged(start_date, end_date) =>
        Between(text, isoformat(start_date[1]), isoformat(end_date[1]))

\* ORDER BY date ASC
RECURSIVE OrderByDate(_)
OrderByDate(S) ==
    IF S = {} THEN <<>>
    ELSE LET first == CHOOSE x \in S : \A y \in S : TextLeq(x, y)
         IN  <<first>> \o OrderByDate(S \ {first})

\* SELECT date, key_count, mouse_click_count, mouse_distance, scroll_distance
\* FROM daily_stats [WHERE date BETWEEN ? AND ?] ORDER BY date ASC
SelectDaily(d, start_date, end_date) ==
    LET dates == OrderByDate({k \in DOMAIN d.daily_stats : InRange(k, start_date, end_date)})
    IN  [i \in 1..Len(dates) |-> [date |-> dates[i], stats |-> d.daily_stats[dates[i]]]]

RECURSIVE AppRowSum(_, _)
AppRowSum(f, S) ==
    IF S = {} THEN AppRow(0, 0, 0, 0)
    ELSE LET x == CHOOSE y \in S : TRUE IN AddApp(f[x], AppRowSum(f, S \ {x}))

\* SELECT app_name, SUM(key_count), SUM(clicks), SUM(scrolls), SUM(distance)
\* FROM app_stats [WHERE date BETWEEN ? AND ?] GROUP BY app_name; the rows as a
\* set, their order (by keys, ties in any order) is not held
SelectApp(d, start_date, end_date) ==
    LET keys == {k \in DOMAIN d.app_stats : InRange(k[1], start_date, end_date)}
    IN  {[app_name |-> a, stats |-> AppRowSum(d.app_stats, {k \in keys : k[2] = a})] :
            a \in {k[2] : k \in keys}}

\* SELECT key_code, SUM(count) FROM heatmap_data [WHERE date BETWEEN ? AND ?]
\* GROUP BY key_code; the rows as a set
SelectHeatmap(d, start_date, end_date) ==
    LET keys == {k \in DOMAIN d.heatmap_data : InRange(k[1], start_date, end_date)}
    IN  {[key_code |-> c, count |-> FnSum(d.heatmap_data, {k \in keys : k[2] = c})] :
            c \in {k[2] : k \in keys}}

\* the destination file: not created, created and left incomplete, or written
NoFile == [exists |-> FALSE, complete |-> FALSE, data |-> <<>>]

WriteFile(data, fault) ==
    IF fault = "open" THEN NoFile
    ELSE IF fault = "write" THEN [exists |-> TRUE, complete |-> FALSE, data |-> <<>>]
    ELSE [exists |-> TRUE, complete |-> TRUE, data |-> data]

\* the body of the try of an export: connect, query the tables, write the file,
\* return True
ExportBody(tables, data, fault) ==
    IF fault \in {"connect", "query"} \/ \E t \in tables : ~TableExists(t)
    THEN [result |-> "raises", file |-> NoFile]
    ELSE [result |-> IF fault \in {"open", "write"} THEN "raises" ELSE "True",
          file |-> WriteFile(data, fault)]

\* a try without its except clause
TryWithoutExcept(outcome) == outcome

\* "except Exception as e: print(...); return False"
Try(outcome) ==
    IF outcome.result = "raises" THEN [outcome EXCEPT !.result = "False"] ELSE outcome

export_daily_stats_csv(d, start_date, end_date, fault) ==
    Try(ExportBody({"daily_stats"}, SelectDaily(d, start_date, end_date), fault))

export_app_stats_csv(d, start_date, end_date, fault) ==
    Try(ExportBody({"app_stats"}, SelectApp(d, start_date, end_date), fault))

export_heatmap_csv(d, start_date, end_date, fault) ==
    Try(ExportBody({"heatmap_data"}, SelectHeatmap(d, start_date, end_date), fault))

\* the query is on app_foreground_time
export_screen_time_csv(d, start_date, end_date, fault) ==
    Try(ExportBody({"app_foreground_time"}, {}, fault))

\* the four queries in one connection, then the file
export_json(d, start_date, end_date, fault) ==
    Try(ExportBody({"daily_stats", "app_stats", "heatmap_data", "app_foreground_time"},
                   [daily_stats |-> SelectDaily(d, start_date, end_date),
                    app_stats |-> SelectApp(d, start_date, end_date),
                    keyboard_heatmap |-> SelectHeatmap(d, start_date, end_date),
                    screen_time |-> {}],
                   fault))

\* os.makedirs, then the four exports into the directory
export_all_csv(d, start_date, end_date, fault) ==
    [daily_stats |-> export_daily_stats_csv(d, start_date, end_date, fault),
     app_stats |-> export_app_stats_csv(d, start_date, end_date, fault),
     heatmap |-> export_heatmap_csv(d, start_date, end_date, fault),
     screen_time |-> export_screen_time_csv(d, start_date, end_date, fault)]

\* one call of the exporter, with its arguments and what it returned
Exported(op, in, out) ==
    call' = [op |-> op, exports |-> Exports + 1, log |-> Ledger,
             start_date |-> in[1], end_date |-> in[2], fault |-> in[3], out |-> out]

CallExportDailyStatsCsv ==
    /\ Exports < MaxExports
    /\ \E in \in ExportInputs :
         Exported("export_daily_stats_csv", in, export_daily_stats_csv(db, in[1], in[2], in[3]))
    /\ UNCHANGED <<engine, buffers, lock, mouse, db, date, second, threads, ghost>>

CallExportAppStatsCsv ==
    /\ Exports < MaxExports
    /\ \E in \in ExportInputs :
         Exported("export_app_stats_csv", in, export_app_stats_csv(db, in[1], in[2], in[3]))
    /\ UNCHANGED <<engine, buffers, lock, mouse, db, date, second, threads, ghost>>

CallExportHeatmapCsv ==
    /\ Exports < MaxExports
    /\ \E in \in ExportInputs :
         Exported("export_heatmap_csv", in, export_heatmap_csv(db, in[1], in[2], in[3]))
    /\ UNCHANGED <<engine, buffers, lock, mouse, db, date, second, threads, ghost>>

CallExportScreenTimeCsv ==
    /\ Exports < MaxExports
    /\ \E in \in ExportInputs :
         Exported("export_screen_time_csv", in, export_screen_time_csv(db, in[1], in[2], in[3]))
    /\ UNCHANGED <<engine, buffers, lock, mouse, db, date, second, threads, ghost>>

CallExportJson ==
    /\ Exports < MaxExports
    /\ \E in \in ExportInputs :
         Exported("export_json", in, export_json(db, in[1], in[2], in[3]))
    /\ UNCHANGED <<engine, buffers, lock, mouse, db, date, second, threads, ghost>>

CallExportAllCsv ==
    /\ Exports < MaxExports
    /\ \E in \in ExportInputs :
         Exported("export_all_csv", in, export_all_csv(db, in[1], in[2], in[3]))
    /\ UNCHANGED <<engine, buffers, lock, mouse, db, date, second, threads, ghost>>

CallGetDateRange ==
    /\ Exports < MaxExports
    /\ \E range_type \in RangeTypes :
         call' = [op |-> "_get_date_range", exports |-> Exports + 1, log |-> Ledger,
                  range_type |-> range_type,
                  out |-> get_date_range(range_type, date)]
    /\ UNCHANGED <<engine, buffers, lock, mouse, db, date, second, threads, ghost>>

NextExport ==
    \/ CallUpdateStats
    \/ CallUpdateAppStats
    \/ CallExportDailyStatsCsv
    \/ CallExportAppStatsCsv
    \/ CallExportHeatmapCsv
    \/ CallExportScreenTimeCsv
    \/ CallExportJson
    \/ CallExportAllCsv
    \/ CallGetDateRange

SpecExport == Init /\ [][NextExport]_vars

\* the export operations that answer True or False
ExportOps ==
    {"export_daily_stats_csv", "export_app_stats_csv", "export_heatmap_csv",
     "export_screen_time_csv", "export_json"}

\* C24: every export operation answers True or False and never raises; when
\* the connection, a query, the opening of the destination or a write fails,
\* the answer is False.
C24_ExportsReportFalse ==
    call.op \in ExportOps =>
        /\ call.out.result \in {"True", "False"}
        /\ call.fault # "none" => call.out.result = "False"
        /\ call.out.result = "True" => call.out.file.complete

C24_Witness ==
    /\ call.op = "export_daily_stats_csv"
    /\ call.fault = "open"
    /\ call.out.result = "False"
    /\ ~call.out.file.exists
    /\ db.daily_stats # <<>>

\* C25: on a database made by Database(), empty or populated, with a writable
\* destination, export_json answers True and each of the four exports of
\* export_all_csv answers True; on an empty database every section is empty.
C25_ExportsSucceed ==
    /\ (call.op = "export_json" /\ call.fault = "none") =>
          /\ call.out.result = "True"
          /\ db = EmptyDb =>
                /\ call.out.file.data.daily_stats = <<>>
                /\ call.out.file.data.app_stats = {}
                /\ call.out.file.data.keyboard_heatmap = {}
                /\ call.out.file.data.screen_time = {}
    /\ (call.op = "export_all_csv" /\ call.fault = "none") =>
          /\ call.out.daily_stats.result = "True"
          /\ call.out.app_stats.result = "True"
          /\ call.out.heatmap.result = "True"
          /\ call.out.screen_time.result = "True"

\* the days that have a daily row and are selected by the two optional dates
DaysExported(start_date, end_date) ==
    {n \in StorageDays :
        /\ DOMAIN UpsertsOf(Ledger, "daily_stats", n, <<>>) # {}
        /\ Ranged(start_date, end_date) => (start_date[1] <= n /\ n <= end_date[1])}

C27_DateRanges ==
    call.op = "_get_date_range" =>
        LET r == call.out
            t == call.range_type
        IN  /\ t = "today" => r = <<<<date>>, <<date>>>>
            /\ t = "week" => r = <<<<date - 6>>, <<date>>>>
            /\ t = "month" => r = <<<<date - 29>>, <<date>>>>
            /\ t = "year" => r = <<<<date - 364>>, <<date>>>>
            /\ t \notin {"today", "week", "month", "year"} => r = <<<<>>, <<>>>>
            /\ r[1] # <<>> =>
                  /\ r[2] = <<date>>
                  /\ r[1][1] <= r[2][1]
                  /\ TextLeq(isoformat(r[1][1]), isoformat(r[2][1]))

C27_Witness ==
    /\ call.op = "_get_date_range"
    /\ call.range_type = "year"
    /\ call.out = <<<<-363>>, <<1>>>>
    /\ isoformat(call.out[1][1]) = <<2023, 3, 3>>

\* ------------------------------------------------- the snapshot as one view
\* C31: all fields of a returned snapshot reflect one point-in-time buffer
\* state, every one of them copied while the lock is held: the buffered scan-code
\* counts add up to buffer_keys and the mouse heatmap's counts add up to
\* buffer_clicks, also when on_click or a flush cycle runs during the snapshot.
C31_SnapshotIsPointInTime ==
    mpc = "snap_done" =>
        /\ DictSum(snap.buffer_heatmap) = snap.buffer_keys
        /\ DictSum(snap.mouse_heatmap) = snap.buffer_clicks

\* ------------------------------------------------- the throttle of on_move
\* mouse moves delivered, and tenths of a second that pass, in SpecMoves
MaxMoves == 4
MaxTicks == 7

MoveInputs ==
    { MsEvent(0, WM_MOUSEMOVE, MsStruct(0, 0, Dword(0, 0))),
      MsEvent(0, WM_MOUSEMOVE, MsStruct(3, 4, Dword(0, 0))) }

\* time.time() moves on by a tenth of a second
Tick ==
    /\ clock < 2 * AppCheckInterval + MaxTicks
    /\ clock' = clock + 1
    /\ UNCHANGED <<engine, buffers, lock, last_mouse_pos, cached_app_name, last_app_check,
                   db, date, call, second, threads, ghost>>

\* The pointer moves while time passes.
NextMoves ==
    \/ Start
    \/ HookStartup
    \/ \E ev \in MoveInputs : OsDeliver("ms", ev, MaxMoves)
    \/ CallNextHookEx(HookThread)
    \/ MsClassify(HookThread)
    \/ HookReturn(HookThread)
    \/ HookDone(HookThread)
    \/ OnMove(HookThread)
    \/ Tick

SpecMoves == Init /\ [][NextMoves]_vars

\* a step of on_move that resolves the foreground application, and one that does not
MoveResolves(t) == Hk(t).pc = "move_app" /\ hk'[t].pc = "move_unlock"

MoveUsesCache(t) == Hk(t).pc = "move_add" /\ hk'[t].pc = "move_unlock"

\* C32: on_move resolves the foreground application at most once per 500 ms:
\* from one resolution of on_move to the next more than 0.5 s has passed, a move
\* that comes sooner resolves nothing, and its distance goes to the cached name.
C32_ResolvedOncePerInterval ==
    [][\A t \in Threads :
          /\ (MoveResolves(t) /\ last_app_check # 0) =>
                 /\ Hk(t).now - last_app_check > AppCheckInterval
                 /\ clock - last_app_check > AppCheckInterval
          /\ (Hk(t).pc = "move_add" /\ hk'[t] # hk[t]
                 /\ clock - last_app_check <= AppCheckInterval) => MoveUsesCache(t)
          /\ MoveUsesCache(t) =>
                 /\ UNCHANGED <<cached_app_name, last_app_check>>
                 /\ AppEntry(app_stats_buffer', cached_app_name).distance
                      = AppEntry(app_stats_buffer, cached_app_name).distance + Hk(t).tmp
                 /\ Len(app_stats_buffer') = Len(app_stats_buffer)]_vars

\* the second resolution of on_move, six tenths after the first; the move between
\* them went to the name the first one cached
C32_Witness ==
    /\ Hk(HookThread).pc = "move_unlock"
    /\ Hk(HookThread).res # Nil
    /\ sent[HookThread] = 4
    /\ last_app_check = 2 * AppCheckInterval + AppCheckInterval + 1
    /\ cached_app_name = Unknown
    /\ AppEntry(app_stats_buffer, "X").distance = Convert(5) + Convert(5)
    /\ AppEntry(app_stats_buffer, Unknown).distance = Convert(5)

\* ------------------------------------------------------ the mouse messages
\* mouse callbacks delivered in SpecMouse
MaxMouseEvents == 2

\* The messages a WH_MOUSE_LL hook is called with (winuser.h): the pointer moves,
\* a button goes down or up (left 513/514, right 516/517, middle 519/520, X
\* 523/524 with the button's number in the high word of mouseData), the wheel or
\* the horizontal wheel (526) turns.
ButtonDownMessages == {WM_LBUTTONDOWN, WM_RBUTTONDOWN, WM_MBUTTONDOWN, 523}

ButtonUpMessages == {514, 517, 520, 524}

MouseMessages ==
    {MsEvent(0, w, MsStruct(12, 7, Dword(0, 0))) :
         w \in {WM_MOUSEMOVE} \cup {WM_LBUTTONDOWN, WM_RBUTTONDOWN, WM_MBUTTONDOWN}
                \cup ButtonUpMessages}
    \cup {MsEvent(0, w, MsStruct(12, 7, Dword(1, 0))) : w \in {523, 524}}
    \cup {MsEvent(0, w, MsStruct(12, 7, Dword(120, 0))) : w \in {WM_MOUSEWHEEL, 526}}

\* The mouse callback on every message the OS has for it.
NextMouse ==
    \/ Start
    \/ HookStartup
    \/ \E ev \in MouseMessages : OsDeliver("ms", ev, MaxMouseEvents)
    \/ CallNextHookEx(HookThread)
    \/ MsClassify(HookThread)
    \/ HookReturn(HookThread)
    \/ HookDone(HookThread)
    \/ OnMove(HookThread)
    \/ OnClick(HookThread)
    \/ OnScroll(HookThread)

SpecMouse == Init /\ [][NextMouse]_vars

\* the callback of thread t is at work on a button-down message
OnButtonDown(t) == Hk(t).pc # "idle" /\ Hk(t).ev.wParam \in ButtonDownMessages

\* C33: the mouse callback counts a click exactly when the message is a
\* button-down message: a button-down of any mouse button goes to on_click and
\* adds exactly 1 to the click count and 1 to one heatmap bucket; button-up,
\* move and wheel messages add no click.
C33_ClickIffButtonDown ==
    [][/\ \A t \in Threads :
            (Hk(t).pc = "classify" /\ hk'[t].pc # "classify") =>
                (OnButtonDown(t) <=> hk'[t].pc = "click_lock")
       /\ click_buffer' # click_buffer =>
            \E t \in Threads :
                /\ OnButtonDown(t)
                /\ Hk(t).pc = "click_add"
                /\ click_buffer' = click_buffer + 1
       /\ mouse_heatmap_buffer' # mouse_heatmap_buffer =>
            \E t \in Threads :
                /\ OnButtonDown(t)
                /\ Hk(t).pc = "click_app"
                /\ DictSum(mouse_heatmap_buffer') = DictSum(mouse_heatmap_buffer) + 1
                /\ \E b \in DictKeys(mouse_heatmap_buffer') :
                      \A c \in DictKeys(mouse_heatmap_buffer') \ {b} :
                          /\ DictHas(mouse_heatmap_buffer, c)
                          /\ DictGet(mouse_heatmap_buffer', c, 0)
                               = DictGet(mouse_heatmap_buffer, c, 0)]_vars

\* ------------------------------------------------------------- the wheel
\* wheel callbacks delivered in SpecWheel
MaxWheelEvents == 2

\* the words of mouseData: no turn, one and two notches away from the user, the
\* largest and the smallest delta, one notch and one unit towards the user
WheelHighWords == {0, 120, 240, 32767, 32768, 65536 - 120, 65535}

WheelLowWords == {0, 65535}

WheelInputs ==
    {MsEvent(0, WM_MOUSEWHEEL, MsStruct(0, 0, Dword(hi, lo))) :
         hi \in WheelHighWords, lo \in WheelLowWords}

\* The wheel turns.
NextWheel ==
    \/ Start
    \/ HookStartup
    \/ \E ev \in WheelInputs : OsDeliver("ms", ev, MaxWheelEvents)
    \/ CallNextHookEx(HookThread)
    \/ MsClassify(HookThread)
    \/ HookReturn(HookThread)
    \/ HookDone(HookThread)
    \/ OnScroll(HookThread)

SpecWheel == Init /\ [][NextWheel]_vars

\* the 16-bit two's-complement reading of the high-order word of a DWORD
SignedHighWord(d) == CHOOSE v \in (0 - 32768)..32767 : (v - d.hi) % 65536 = 0

InOnScroll(h) == h.pc \in {"scroll_lock", "scroll_add", "scroll_app", "scroll_unlock"}

\* C34: for every mouseData of a wheel event the delta handed to on_scroll is
\* the high-order 16 bits read as a signed two's-complement integer, whatever
\* the low word holds, and scroll_buffer grows by |delta|/120 (|delta| in the
\* 120ths the model counts), so a delta of +120 or of -120 adds exactly 1.
C34_WheelDeltaSigned ==
    /\ [](\A t \in Threads :
            InOnScroll(Hk(t)) => Hk(t).tmp = SignedHighWord(Hk(t).ev.lParam.mouseData))
    /\ [][scroll_buffer' # scroll_buffer =>
              \E t \in Threads :
                  LET delta == SignedHighWord(Hk(t).ev.lParam.mouseData) IN
                  /\ Hk(t).pc = "scroll_add"
                  /\ scroll_buffer' = scroll_buffer + Abs(delta)
                  /\ delta \in {120, 0 - 120} => scroll_buffer' = scroll_buffer + 120]_vars

\* one notch towards the user after one notch away: two notches in the accumulator
C34_Witness ==
    /\ Hk(HookThread).pc = "scroll_unlock"
    /\ Hk(HookThread).ev.lParam.mouseData = Dword(65536 - 120, 65535)
    /\ Hk(HookThread).tmp = 0 - 120
    /\ sent[HookThread] = 2
    /\ scroll_buffer = 120 + 120
    /\ AppScrollSum(app_stats_buffer) = 2

\* ------------------------------------------------ the buffers as one record
\* C35: whenever the lock is free the buffers agree: the per-application key
\* counters add up to key_buffer and so do the scan-code counts; the
\* per-application click counters add up to click_buffer and so do the
\* mouse-heatmap counts.
C35_BuffersAgree ==
    lock = NoThread =>
        /\ AppKeySum(app_stats_buffer) = key_buffer
        /\ DictSum(heatmap_buffer) = key_buffer
        /\ AppClickSum(app_stats_buffer) = click_buffer
        /\ DictSum(mouse_heatmap_buffer) = click_buffer

\* a click buffered after the cycle that persisted a key press
C35_Witness ==
    /\ lock = NoThread
    /\ Quiescent
    /\ PersistedToday.key_count = 1
    /\ key_buffer = 0
    /\ heatmap_buffer = <<>>
    /\ click_buffer = 1
    /\ AppClickSum(app_stats_buffer) = 1
    /\ DictSum(mouse_heatmap_buffer) = 1

\* ------------------------------------------------------------- midnight
\* callbacks delivered, and midnights that pass, in SpecMidnight
MaxMidnightEvents == 2
MaxMidnights == 1

\* datetime.date.today() answers the next day from now on
Midnight ==
    /\ date < 1 + MaxMidnights
    /\ date' = date + 1
    /\ recorded' = [recorded EXCEPT !.eveKeys = recorded.keys, !.eveClicks = recorded.clicks]
    /\ UNCHANGED <<engine, buffers, lock, mouse, db, call, second, threads,
                   sent, qualKeys, failed, prevDb, quiet, prevFailed, nSnaps, caught>>

\* The engine at work across midnight.
NextMidnight ==
    \/ Start
    \/ HookStartup
    \/ \E ev \in StopKbInputs : OsDeliver("kb", ev, MaxMidnightEvents)
    \/ \E ev \in StopMsInputs : OsDeliver("ms", ev, MaxMidnightEvents)
    \/ Callback(HookThread)
    \/ OnPress(HookThread)
    \/ OnClick(HookThread)
    \/ FlushLoop
    \/ FlushStats(FlushWorker)
    \/ Midnight

SpecMidnight == Init /\ [][NextMidnight]_vars

\* C36: every event is persisted under the date on which it was recorded: the
\* row of the current date never holds more key presses or clicks than were
\* recorded since the date began, so a flush cycle after midnight adds nothing
\* recorded before midnight to the new day's row.
C36_PersistedUnderRecordingDate ==
    /\ PersistedToday.key_count <= recorded.keys - recorded.eveKeys
    /\ PersistedToday.mouse_click_count <= recorded.clicks - recorded.eveClicks

\* ---------------------------------------------------- start() called again
\* key presses made on the keyboard in SpecRestart
MaxPresses == 1

\* start() once more, while started or after stop(): self.running = True, and
\* another hook thread is started
StartAgainHookThread ==
    /\ mpc \in {"ui", "stopped"}
    /\ second.hpc = "unstarted"
    /\ running' = TRUE
    /\ second' = [second EXCEPT !.hpc = "set_id"]
    /\ mpc' = "start_flush_again"
    /\ UNCHANGED <<hook_thread_id, keyboard_hook, mouse_hook, installed,
                   on_key_press_callback, buffers, lock, mouse, db, date, call, hk, hpc,
                   quitPosted, wpc, fl, snap, ghost>>

\* another flush thread is started; start() returns
StartAgainFlushThread ==
    /\ mpc = "start_flush_again"
    /\ second' = [second EXCEPT !.wpc = "loop"]
    /\ mpc' = "ui"
    /\ UNCHANGED <<engine, buffers, lock, mouse, db, date, call, hk, hpc, quitPosted, wpc,
                   fl, snap, ghost>>

\* hook_loop on the second hook thread: self.hook_thread_id = GetCurrentThreadId()
HookSetIdAgain ==
    /\ second.hpc = "set_id"
    /\ hook_thread_id' = SecondHookThread
    /\ second' = [second EXCEPT !.hpc = "install_kb"]
    /\ UNCHANGED <<running, keyboard_hook, mouse_hook, installed, on_key_press_callback,
                   buffers, lock, mouse, db, date, call, threads, ghost>>

\* self.keyboard_hook = user32.SetWindowsHookExW(WH_KEYBOARD_LL, ...): one more handle
HookInstallKbAgain ==
    /\ second.hpc = "install_kb"
    /\ \/ keyboard_hook' = "kb2" /\ installed' = installed \cup {"kb2"}
       \/ keyboard_hook' = None /\ UNCHANGED installed
    /\ second' = [second EXCEPT !.hpc = "install_ms"]
    /\ UNCHANGED <<running, hook_thread_id, mouse_hook, on_key_press_callback,
                   buffers, lock, mouse, db, date, call, threads, ghost>>

\* self.mouse_hook = user32.SetWindowsHookExW(WH_MOUSE_LL, ...): one more handle
HookInstallMsAgain ==
    /\ second.hpc = "install_ms"
    /\ \/ mouse_hook' = "ms2" /\ installed' = installed \cup {"ms2"}
       \/ mouse_hook' = None /\ UNCHANGED installed
    /\ second' = [second EXCEPT !.hpc = "installed"]
    /\ UNCHANGED <<running, hook_thread_id, keyboard_hook, on_key_press_callback,
                   buffers, lock, mouse, db, date, call, threads, ghost>>

HookCheckAgain ==
    /\ second.hpc = "installed"
    /\ second' = [second EXCEPT !.hpc =
                      IF keyboard_hook = None \/ mouse_hook = None THEN "exited" ELSE "pump"]
    /\ UNCHANGED <<engine, buffers, lock, mouse, db, date, call, threads, ghost>>

\* flush_loop on the second flush thread
WorkerLoopAgain ==
    /\ second.wpc = "loop"
    /\ second' = [second EXCEPT !.wpc = IF running THEN "sleep" ELSE "exited"]
    /\ UNCHANGED <<engine, buffers, lock, mouse, db, date, call, threads, ghost>>

WorkerWakeAgain ==
    /\ second.wpc = "sleep"
    /\ second' = [second EXCEPT !.wpc = "flush"]
    /\ SetFl(SecondWorker, [IdleFlush EXCEPT !.pc = "lock"])
    /\ UNCHANGED <<engine, buffers, lock, mouse, db, date, call, hk, hpc, quitPosted, wpc,
                   mpc, snap, ghost>>

WorkerFlushedAgain ==
    /\ second.wpc = "flush"
    /\ Fl(SecondWorker).pc \in {"done", "raised"}
    /\ second' = [second EXCEPT !.wpc =
                      IF Fl(SecondWorker).pc = "done" THEN "loop" ELSE WorkerAfterRaise]
    /\ SetFl(SecondWorker, IdleFlush)
    /\ UNCHANGED <<engine, buffers, lock, mouse, db, date, call, hk, hpc, quitPosted, wpc,
                   mpc, snap, ghost>>

\* the keyboard hooks, the thread each one's callback runs on (the thread that
\* installed it), and whether that thread is in its message loop
KbHooks == {"kb", "kb2"}

MsHooks == {"ms", "ms2"}

HookOwner(handle) == IF handle = "kb" THEN HookThread ELSE SecondHookThread

Pumping(handle) == IF handle = "kb" THEN hpc = "pump" ELSE second.hpc = "pump"

\* A key goes down on the keyboard: the OS has every installed keyboard hook to call.
KeyPress ==
    /\ second.presses < MaxPresses
    /\ second' = [second EXCEPT !.presses = @ + 1, !.pending = installed \cap KbHooks]
    /\ UNCHANGED <<engine, buffers, lock, mouse, db, date, call, threads, ghost>>

\* the OS calls one of them with the key press, when the one it called before
\* has returned
OsCallsHook(handle) ==
    /\ handle \in second.pending
    /\ \A t \in Threads : Hk(t).pc = "idle"
    /\ handle \in installed
    /\ Pumping(handle)
    /\ Enter(HookOwner(handle), "kb", KbEvent(0, WM_KEYDOWN, KbStruct(30, 0)))
    /\ second' = [second EXCEPT !.pending = @ \ {handle}]

StartAgain == StartAgainHookThread \/ StartAgainFlushThread

HookStartupAgain == HookSetIdAgain \/ HookInstallKbAgain \/ HookInstallMsAgain \/ HookCheckAgain

FlushLoopAgain == WorkerLoopAgain \/ WorkerWakeAgain \/ WorkerFlushedAgain

\* start(), and start() again while the engine is at work.
NextRestart ==
    \/ Start
    \/ HookStartup
    \/ StartAgain
    \/ HookStartupAgain
    \/ KeyPress
    \/ \E handle \in KbHooks : OsCallsHook(handle)
    \/ \E t \in {HookThread, SecondHookThread} : KbCallback(t) \/ OnPress(t)
    \/ FlushLoop
    \/ FlushKeys(FlushWorker)
    \/ FlushLoopAgain
    \/ FlushKeys(SecondWorker)

SpecRestart == Init /\ [][NextRestart]_vars

\* a flush_loop that has not returned
Looping(pc) == pc \in {"loop", "sleep", "flush"}

\* C37: however often start() is called, at most one keyboard hook and one
\* mouse hook are installed and at most one flush loop runs, so no key press is
\* counted twice.
C37_StartIsIdempotent ==
    /\ Cardinality(installed \cap KbHooks) <= 1
    /\ Cardinality(installed \cap MsHooks) <= 1
    /\ ~(Looping(wpc) /\ Looping(second.wpc))
    /\ recorded.keys <= second.presses

\* ------------------------------------------------- the key-press callback
\* thread t moves on from the place pc of its hook callback
Leaves(t, pc) == Hk(t).pc = pc /\ hk'[t] # hk[t]

\* C38: the registered key-press callback is invoked exactly once for every
\* counted key press and for no other event, after the buffer update and with
\* the lock released (so it may take the lock itself, as get_stats_snapshot
\* does); whether it returns or raises, the count stays as it is.
C38_CallbackOncePerKeyPress ==
    /\ [](\A t \in Threads :
            Hk(t).pc = "press_cb" =>
                /\ on_key_press_callback # None
                /\ Hk(t).proc = "kb" /\ CountsAsKey(Hk(t).ev)
                /\ lock # t
                /\ key_buffer >= 1
                /\ DictGet(heatmap_buffer, Hk(t).ev.lParam.scanCode, 0) >= 1)
    /\ [][\A t \in Threads :
            /\ (Leaves(t, "press_unlock") /\ on_key_press_callback # None) =>
                   hk'[t].pc = "press_cb"
            /\ (hk'[t].pc = "press_cb" /\ Hk(t).pc # "press_cb") =>
                   Hk(t).pc = "press_unlock"
            /\ Leaves(t, "press_cb") =>
                   /\ hk'[t].pc = "ret"
                   /\ UNCHANGED <<buffers, lock, recorded>>]_vars

\* the callback of the second key press has raised: both presses stay counted
C38_Witness ==
    /\ on_key_press_callback # None
    /\ Hk(HookThread).pc = "ret"
    /\ Hk(HookThread).raised
    /\ CountsAsKey(Hk(HookThread).ev)
    /\ lock = NoThread
    /\ key_buffer = 2
    /\ recorded.keys = 2
    /\ caught = 2

\* ------------------------------------------------------- the dashboard
\* callbacks delivered in SpecDashboard
MaxDashEvents == 2

\* Database.get_stats_range: SELECT SUM(key_count), SUM(mouse_click_count),
\* SUM(mouse_distance), SUM(scroll_distance) FROM daily_stats WHERE date BETWEEN
\* ? AND ?; a sum is <<n>>, or <<>> (NULL) when no row is in the range
get_stats_range(d, start_date, end_date) ==
    LET rows == {r \in DOMAIN d.daily_stats : start_date <= r /\ r <= end_date} IN
    IF rows = {}
    THEN <<<<>>, <<>>, <<>>, <<>>>>
    ELSE <<<<FnSum([r \in rows |-> d.daily_stats[r].key_count], rows)>>,
           <<FnSum([r \in rows |-> d.daily_stats[r].mouse_click_count], rows)>>,
           <<FnSum([r \in rows |-> d.daily_stats[r].mouse_distance], rows)>>,
           <<FnSum([r \in rows |-> d.daily_stats[r].scroll_distance], rows)>>>>

\* "x or 0" of a sum
OrZero(x) == IF x = <<>> THEN 0 ELSE x[1]

\* MainWindow.update_stats with the range 'today': start_date, end_date = today,
\* today; db_stats = self.tracker.db.get_stats_range(start_date, end_date) and the
\* four totals.  (The call keeps what had been recorded when it began.)
UpdateStatsRange ==
    /\ mpc = "ui"
    /\ nSnaps < MaxSnapshots
    /\ LET db_stats == get_stats_range(db, date, date)
       IN  call' = [op |-> "update_stats", began |-> recorded,
                    keys |-> OrZero(db_stats[1]), clicks |-> OrZero(db_stats[2]),
                    distance |-> OrZero(db_stats[3]), scroll |-> OrZero(db_stats[4])]
    /\ mpc' = "upd_snapshot"
    /\ UNCHANGED <<engine, buffers, lock, mouse, db, date, second, hk, hpc, quitPosted, wpc,
                   fl, snap, ghost>>

\* buffer_stats = self.tracker.get_stats_snapshot(): its "with self.lock:"
UpdateStatsSnapshot ==
    /\ mpc = "upd_snapshot"
    /\ LockAcquire(MainThread)
    /\ mpc' = "snap_stats"
    /\ nSnaps' = nSnaps + 1
    /\ UNCHANGED <<engine, buffers, mouse, db, date, call, second, hk, hpc, quitPosted, wpc,
                   fl, snap, sent, qualKeys, recorded, failed, prevDb, quiet, prevFailed,
                   caught>>

\* keys += buffer_stats.get('buffer_keys', 0) and the other three; the cards show them
UpdateStatsCards ==
    /\ mpc = "snap_done"
    /\ call' = [call EXCEPT !.op = "cards",
                            !.keys = @ + snap.buffer_keys,
                            !.clicks = @ + snap.buffer_clicks,
                            !.distance = @ + snap.buffer_distance,
                            !.scroll = @ + snap.buffer_scroll]
    /\ snap' = NoSnap
    /\ mpc' = "ui"
    /\ UNCHANGED <<engine, buffers, lock, mouse, db, date, second, hk, hpc, quitPosted, wpc,
                   fl, ghost>>

\* The dashboard refreshes its cards while the engine works.
NextDashboard ==
    \/ Start
    \/ HookStartup
    \/ \E ev \in StopKbInputs : OsDeliver("kb", ev, MaxDashEvents)
    \/ \E ev \in StopMsInputs : OsDeliver("ms", ev, MaxDashEvents)
    \/ Callback(HookThread)
    \/ OnPress(HookThread)
    \/ OnClick(HookThread)
    \/ FlushLoop
    \/ FlushStats(FlushWorker)
    \/ UpdateStatsRange
    \/ UpdateStatsSnapshot
    \/ SnapStats
    \/ SnapHeatmap
    \/ SnapUnlock
    \/ SnapReturn
    \/ UpdateStatsCards

SpecDashboard == Init /\ [][NextDashboard]_vars

\* C39: the dashboard's total for today, the storage range total read first plus
\* the snapshot's buffer_keys and buffer_clicks read afterwards, is the number
\* of events recorded so far (no fewer than were recorded when the refresh
\* began, no more than are recorded when it ends), also when a flush cycle runs
\* between the two reads; no storage call failing.
C39_DashboardTotalIsRecorded ==
    (call.op = "cards" /\ ~failed) =>
        /\ call.began.keys <= call.keys /\ call.keys <= recorded.keys
        /\ call.began.clicks <= call.clicks /\ call.clicks <= recorded.clicks

\* ---------------------------------------------------------------------
\* Application groups of the configuration (config.py).  The Config object
\* is held in `call`: app_groups is the stored dictionary of two lists,
\* assigned records for every name the group of the most recent
\* set_app_group call for it, calls counts the calls made.
\* ---------------------------------------------------------------------
MaxConfigApps == 3
MaxConfigCalls == 5

ConfigApps == 1 .. MaxConfigApps
GroupArgs == {"productivity", "other", None}

DEFAULT_CONFIG == [app_groups |-> [productivity |-> <<>>, other |-> <<>>]]

In(app_name, list) == \E i \in 1 .. Len(list) : list[i] = app_name

ListKeeps(list, app_name) == list

\* list.remove(x): the first occurrence is taken out.
ListRemove(list, app_name) ==
    LET i == CHOOSE k \in 1 .. Len(list) :
                 list[k] = app_name /\ \A j \in 1 .. (k - 1) : list[j] # app_name
    IN  SubSeq(list, 1, i - 1) \o SubSeq(list, i + 1, Len(list))

get_app_group(groups, app_name) ==
    IF In(app_name, groups.productivity) THEN "productivity"
    ELSE IF In(app_name, groups.other) THEN "other"
    ELSE None

set_app_group(groups, app_name, group) ==
    LET productivity == IF In(app_name, groups.productivity)
                        THEN ListRemove(groups.productivity, app_name)
                        ELSE groups.productivity
        other == IF In(app_name, groups.other)
                 THEN ListRemove(groups.other, app_name)
                 ELSE groups.other
    IN  [productivity |-> IF group = "productivity"
                          THEN Append(productivity, app_name) ELSE productivity,
         other |-> IF group = "other"
                   THEN Append(other, app_name) ELSE other]

ConfigNew ==
    /\ call = NoCall
    /\ call' = [op |-> "config", app_groups |-> DEFAULT_CONFIG.app_groups,
                assigned |-> [a \in ConfigApps |-> None], calls |-> 0]
    /\ UNCHANGED <<engine, buffers, lock, mouse, db, date, second, threads, ghost>>

SetAppGroup ==
    /\ call.op = "config"
    /\ call.calls < MaxConfigCalls
    /\ \E app_name \in ConfigApps, group \in GroupArgs :
         call' = [call EXCEPT
                    !.app_groups = set_app_group(@, app_name, group),
                    !.assigned[app_name] = group,
                    !.calls = @ + 1]
    /\ UNCHANGED <<engine, buffers, lock, mouse, db, date, second, threads, ghost>>

NextConfig ==
    \/ ConfigNew
    \/ SetAppGroup

SpecConfig == Init /\ [][NextConfig]_vars

Count(app_name, list) == Cardinality({i \in 1 .. Len(list) : list[i] = app_name})

\* C40: starting from the default configuration, after any sequence of
\* set_app_group calls every application name is in at most one of the two
\* lists and at most once in it, and get_app_group gives for every name the
\* group of the most recent set_app_group call for that name (None when it
\* was removed or never assigned), so a call for one name changes no other
\* name's group.
C40_AppInOneGroup ==
    call.op = "config" =>
        \A a \in ConfigApps :
            /\ Count(a, call.app_groups.productivity)
                 + Count(a, call.app_groups.other) <= 1
            /\ get_app_group(call.app_groups, a) = call.assigned[a]

C40_Witness ==
    /\ call.op = "config"
    /\ call.calls = MaxConfigCalls
    /\ \E a, b, c \in ConfigApps :
         /\ call.app_groups.productivity = <<a>>
         /\ call.app_groups.other = <<b>>
         /\ a # c /\ b # c
         /\ get_app_group(call.app_groups, c) = None

====
